---------------------------- MODULE Spec2Model ----------------------------
(***************************************************************************)
(* sqliteviewer: the HTTP data-access layer of internal/server (server.go, *)
(* export.go) over one SQLite database handle.                             *)
(*                                                                         *)
(* Strings are sequences of Unicode code points (Go runes), so that the    *)
(* identifier validator, the quoting and the lexical classification of an  *)
(* ad-hoc statement are computed character by character, as the code does. *)
(* A cell value is a record [k, v]: k is the storage class ("null", "int", *)
(* "real", "text") and v the value's text (its digits, for a number).      *)
(* The storage engine is SQLite, reached through database/sql: it is       *)
(* modelled at the level of one statement execution (Engine* operators).   *)
(***************************************************************************)
EXTENDS Integers, Sequences, FiniteSets, TLC

VARIABLES
    db,         \* the database file: table name -> [cols, sql, rows]
    dbPrev,     \* the database as it was when the last request arrived
    req,        \* the last request served
    resp,       \* its response: status code and JSON body
    sqlIdents,  \* the identifiers the last request embedded into SQL text
    executed,   \* the number of SQL statements the last request handed to the engine
    idName,     \* SpecIdent: the string given to IsSafeIdentifier
    idResult,   \* SpecIdent: "none" before the call, then the returned boolean
    acked,      \* SpecFresh: the last mutation the server answered with success
    calls,      \* SpecRace: the two update requests in progress, each [pc, req, resp]
    writeLock,  \* SpecRace: the call whose statement holds the write lock, or 0
    boot,       \* SpecStart: the process from main to the listener
    reader      \* SpecOverlap: the fetch or export between its two statements

vars == <<db, dbPrev, req, resp, sqlIdents, executed, idName, idResult, acked,
          calls, writeLock, boot, reader>>

srvVars == <<db, dbPrev, req, resp, sqlIdents, executed>>
idVars == <<idName, idResult>>
raceVars == <<calls, writeLock>>

(***************************************************************************)
(* Bounds of the model.                                                    *)
(***************************************************************************)
MaxRows == 3        \* rows a table holds at most
MaxRowid == 3       \* largest row identifier the engine hands out
MaxIdLen == 2       \* SpecIdent: longest string given to the validator
MaxServed == 2      \* SpecStart: requests the listener is followed through
MaxWrites == 3      \* SpecOverlap: requests of other callers that change the database

(***************************************************************************)
(* Sequence helpers.                                                       *)
(***************************************************************************)
Range(s) == {s[i] : i \in 1..Len(s)}

Perms(S) == {p \in [1..Cardinality(S) -> S] : \A x \in S : \E i \in DOMAIN p : p[i] = x}

StringsUpTo(A, n) == UNION {[1..k -> A] : k \in 0..n}

HasPrefix(s, p) == Len(s) >= Len(p) /\ SubSeq(s, 1, Len(p)) = p

(***************************************************************************)
(* Identifier validator and quoter (server.go 415-429).                    *)
(***************************************************************************)
\* One rune of the allow-list: '_' 95, '.' 46, '0'..'9' 48..57,
\* 'A'..'Z' 65..90, 'a'..'z' 97..122.
SafeRuneLowDigit(r) ==
    r = 95 \/ r = 46 \/ (r > 48 /\ r <= 57) \/ (r >= 65 /\ r <= 90)
        \/ (r >= 97 /\ r <= 122)

SafeRune(r) ==
    r = 95 \/ r = 46 \/ (r >= 48 /\ r <= 57) \/ (r >= 65 /\ r <= 90)
        \/ (r >= 97 /\ r <= 122)

IsSafeIdentifier(name) ==
    /\ name # <<>>
    /\ \A i \in 1..Len(name) : SafeRune(name[i])

\* strings.ReplaceAll(name, `"`, `""`): '"' is 34.
RECURSIVE DoubleQuotes(_)
DoubleQuotes(s) ==
    IF s = <<>> THEN <<>>
    ELSE (IF Head(s) = 34 THEN <<34, 34>> ELSE <<Head(s)>>) \o DoubleQuotes(Tail(s))

QuoteIdentifier(name) == <<34>> \o DoubleQuotes(name) \o <<34>>

\* The engine's reading of a double-quoted identifier: the quotes are dropped
\* and a doubled quote stands for one.
RECURSIVE UndoubleQuotes(_)
UndoubleQuotes(s) ==
    IF s = <<>> THEN <<>>
    ELSE IF Len(s) >= 2 /\ s[1] = 34 /\ s[2] = 34
         THEN <<34>> \o UndoubleQuotes(SubSeq(s, 3, Len(s)))
         ELSE <<Head(s)>> \o UndoubleQuotes(Tail(s))

Unquote(q) == UndoubleQuotes(SubSeq(q, 2, Len(q) - 1))

(***************************************************************************)
(* Names and values of the model.                                          *)
(***************************************************************************)
TblT == <<116>>                              \* "t"
TblBad == <<116, 59>>                        \* "t;"
ColN == <<110>>                              \* "n"
ColAB == <<97, 32, 98>>                      \* "a b"
ColZZ == <<122, 122>>                        \* "zz"
ColBad == <<110, 59>>                        \* "n;"
KeyRowid == <<95, 114, 111, 119, 105, 100>>  \* "_rowid"
ColRowid == <<114, 111, 119, 105, 100>>      \* "rowid"

\* The names SQLite resolves to the row identifier when no column has them:
\* "rowid", "oid", "_rowid_".
RowidAliases ==
    {ColRowid, <<111, 105, 100>>, <<95, 114, 111, 119, 105, 100, 95>>}

Null == [k |-> "null", v |-> <<>>]
IntVal(digits) == [k |-> "int", v |-> digits]
RealVal(digits) == [k |-> "real", v |-> digits]
TextVal(s) == [k |-> "text", v |-> s]

IsDigits(s) == s # <<>> /\ \A i \in 1..Len(s) : s[i] >= 48 /\ s[i] <= 57

RECURSIVE ParseDigits(_)
ParseDigits(s) ==
    IF s = <<>> THEN 0 ELSE 10 * ParseDigits(SubSeq(s, 1, Len(s) - 1)) + (s[Len(s)] - 48)

RECURSIVE FormatNat(_)
FormatNat(n) ==
    IF n < 10 THEN <<48 + n>> ELSE FormatNat(n \div 10) \o <<48 + (n % 10)>>

\* Column affinity (https://sqlite.org/datatype3.html, section 3): an INTEGER
\* column turns a well-formed integer text and an integral real into an
\* integer; a TEXT column turns a number into its text (an integral real r is
\* stored as "r.0"); a column declared without a type stores what it is given.
Coerce(aff, val) ==
    CASE aff = "INTEGER" /\ val.k = "text" /\ IsDigits(val.v) -> IntVal(val.v)
      [] aff = "INTEGER" /\ val.k = "real" -> IntVal(val.v)
      [] aff = "TEXT" /\ val.k = "int" -> TextVal(val.v)
      [] aff = "TEXT" /\ val.k = "real" -> TextVal(val.v \o <<46, 48>>)
      [] OTHER -> val


(***************************************************************************)
(* The database.  A table is [cols, sql, rows]: cols the declared columns  *)
(* in order, each [name, aff]; sql the text of its CREATE statement as the *)
(* schema table keeps it; rows a set of [rowid, vals], vals aligned with   *)
(* cols.  db maps the name of each existing table to its table.            *)
(***************************************************************************)
Rowids(t) == {r.rowid : r \in t.rows}

MaxOf(S) == CHOOSE x \in S : \A y \in S : y <= x

\* The rows of a table in the order of a table scan: by ascending rowid.
RECURSIVE ScanOrder(_)
ScanOrder(rows) ==
    IF rows = {} THEN <<>>
    ELSE LET first == CHOOSE r \in rows : \A o \in rows : r.rowid <= o.rowid
         IN  <<first>> \o ScanOrder(rows \ {first})

\* How the engine resolves a column name of a statement against a table: the
\* position of the declared column, 0 for the row identifier, -1 for none.
ColIndex(t, name) ==
    IF \E j \in 1..Len(t.cols) : t.cols[j].name = name
    THEN CHOOSE j \in 1..Len(t.cols) : t.cols[j].name = name
    ELSE IF name \in RowidAliases THEN 0 ELSE -1

ExecResult(err, d, affected, lastId) ==
    [err |-> err, db |-> d, rowsAffected |-> affected, lastInsertId |-> lastId]

AssignValsOnly(t, names, args, old) ==
    [j \in 1..Len(t.cols) |->
        IF \E i \in 1..Len(names) : ColIndex(t, names[i]) = j
        THEN LET i == CHOOSE i \in 1..Len(names) : ColIndex(t, names[i]) = j
             IN  Coerce(t.cols[j].aff, args[i])
        ELSE Null]

\* The values the listed columns give to the declared columns of t; a column
\* that is not listed keeps old[j].
AssignVals(t, names, args, old) ==
    [j \in 1..Len(t.cols) |->
        IF \E i \in 1..Len(names) : ColIndex(t, names[i]) = j
        THEN LET i == CHOOSE i \in 1..Len(names) : ColIndex(t, names[i]) = j
             IN  Coerce(t.cols[j].aff, args[i])
        ELSE old[j]]

\* INSERT INTO <qtable> (<qcols>) VALUES (?, ...) with args bound.
EngineInsert(d, qtable, qcols, args) ==
    LET tname == Unquote(qtable) IN
    IF tname \notin DOMAIN d THEN ExecResult("no such table", d, 0, 0)
    ELSE
    LET t == d[tname]
        names == [i \in 1..Len(qcols) |-> Unquote(qcols[i])]
        idPos == {i \in 1..Len(names) : ColIndex(t, names[i]) = 0}
        given == IF idPos = {} THEN Null
                 ELSE Coerce("INTEGER", args[CHOOSE i \in idPos : TRUE])
        rowid == IF given.k = "int" THEN ParseDigits(given.v)
                 ELSE IF t.rows = {} THEN 1 ELSE MaxOf(Rowids(t)) + 1
        row == [rowid |-> rowid,
                vals |-> AssignVals(t, names, args, [j \in 1..Len(t.cols) |-> Null])]
    IN  IF \E i \in 1..Len(names) : ColIndex(t, names[i]) = -1
        THEN ExecResult("no such column", d, 0, 0)
        ELSE IF given.k \notin {"null", "int"}
        THEN ExecResult("datatype mismatch", d, 0, 0)
        ELSE IF rowid \in Rowids(t)
        THEN ExecResult("UNIQUE constraint failed", d, 0, 0)
        ELSE ExecResult("", [d EXCEPT ![tname].rows = @ \cup {row}], 1, rowid)

\* UPDATE <qtable> SET <qcols[i]> = ?, ... WHERE rowid = ? with args bound:
\* one argument per SET column, then the row identifier.
EngineUpdate(d, qtable, qcols, args) ==
    LET tname == Unquote(qtable) IN
    IF tname \notin DOMAIN d THEN ExecResult("no such table", d, 0, 0)
    ELSE
    LET t == d[tname]
        names == [i \in 1..Len(qcols) |-> Unquote(qcols[i])]
        key == Coerce("INTEGER", args[Len(args)])
        hit == {r \in t.rows : key.k = "int" /\ r.rowid = ParseDigits(key.v)}
        idPos == {i \in 1..Len(names) : ColIndex(t, names[i]) = 0}
        given == IF idPos = {} THEN Null
                 ELSE Coerce("INTEGER", args[CHOOSE i \in idPos : TRUE])
        New(r) == [rowid |-> IF idPos = {} THEN r.rowid ELSE ParseDigits(given.v),
                   vals |-> AssignVals(t, names, args, r.vals)]
    IN  IF Len(qcols) = 0 \/ Len(args) # Len(qcols) + 1
        THEN ExecResult("syntax error", d, 0, 0)
        ELSE IF \E i \in 1..Len(names) : ColIndex(t, names[i]) = -1
        THEN ExecResult("no such column", d, 0, 0)
        ELSE IF hit = {} THEN ExecResult("", d, 0, 0)
        ELSE IF idPos # {} /\ given.k # "int"
        THEN ExecResult("datatype mismatch", d, 0, 0)
        ELSE IF \E r \in hit : New(r).rowid \in Rowids(t) \ {r.rowid}
        THEN ExecResult("UNIQUE constraint failed", d, 0, 0)
        ELSE ExecResult("",
                 [d EXCEPT ![tname].rows = (@ \ hit) \cup {New(r) : r \in hit}],
                 Cardinality(hit), 0)

\* DELETE FROM <qtable> WHERE rowid = ? with the row identifier bound.
EngineDelete(d, qtable, args) ==
    LET tname == Unquote(qtable) IN
    IF tname \notin DOMAIN d THEN ExecResult("no such table", d, 0, 0)
    ELSE
    LET t == d[tname]
        key == Coerce("INTEGER", args[1])
        hit == {r \in t.rows : key.k = "int" /\ r.rowid = ParseDigits(key.v)}
    IN  ExecResult("", [d EXCEPT ![tname].rows = @ \ hit], Cardinality(hit), 0)

(***************************************************************************)
(* Reading: LIKE, ORDER BY, LIMIT/OFFSET, COUNT, PRAGMA table_info.         *)
(***************************************************************************)
\* The text a value has when an operator needs text (LIKE on a number).
ValueText(val) == IF val.k = "real" THEN val.v \o <<46, 48>> ELSE val.v

\* LIKE folds the case of the ASCII letters only.
FoldCaseNone(c) == c

FoldCase(c) == IF c >= 65 /\ c <= 90 THEN c + 32 ELSE c

\* pattern LIKE text: '%' (37) matches any run of characters, '_' (95) any
\* one character, any other character itself, case folded.
RECURSIVE LikeMatch(_, _)
LikeMatch(p, s) ==
    IF p = <<>> THEN s = <<>>
    ELSE IF Head(p) = 37
         THEN LikeMatch(Tail(p), s) \/ (s # <<>> /\ LikeMatch(p, Tail(s)))
         ELSE /\ s # <<>>
              /\ (Head(p) = 95 \/ FoldCase(Head(p)) = FoldCase(Head(s)))
              /\ LikeMatch(Tail(p), Tail(s))

\* value LIKE pattern is NULL, hence not true, for a NULL value.
ValueLike(val, pattern) ==
    val.k # "null" /\ pattern.k # "null" /\ LikeMatch(ValueText(pattern), ValueText(val))

\* The value of the column at position j (0: the row identifier) in a row.
CellAt(r, j) == IF j = 0 THEN IntVal(FormatNat(r.rowid)) ELSE r.vals[j]

\* WHERE (<qwhere[1]> LIKE ? OR ...): no condition when qwhere is empty.
RowMatches(t, r, qwhere, args) ==
    \/ Len(qwhere) = 0
    \/ \E i \in 1..Len(qwhere) :
           ValueLike(CellAt(r, ColIndex(t, Unquote(qwhere[i]))), args[i])

RECURSIVE SeqLess(_, _)
SeqLess(a, b) ==
    IF b = <<>> THEN FALSE
    ELSE IF a = <<>> THEN TRUE
    ELSE IF Head(a) # Head(b) THEN Head(a) < Head(b)
    ELSE SeqLess(Tail(a), Tail(b))

\* The order of ORDER BY: NULL first, then the numbers, then the texts.
ClassRank(val) == CASE val.k = "null" -> 0 [] val.k = "text" -> 2 [] OTHER -> 1

ValueLess(a, b) ==
    IF ClassRank(a) # ClassRank(b) THEN ClassRank(a) < ClassRank(b)
    ELSE CASE ClassRank(a) = 0 -> FALSE
           [] ClassRank(a) = 1 -> ParseDigits(a.v) < ParseDigits(b.v)
           [] OTHER -> SeqLess(a.v, b.v)

SortRowsAscending(s, j, desc) ==
    LET Ins(sorted, r) ==
            LET k == Cardinality({i \in 1..Len(sorted) :
                                     ~ValueLess(CellAt(r, j), CellAt(sorted[i], j))})
            IN  SubSeq(sorted, 1, k) \o <<r>> \o SubSeq(sorted, k + 1, Len(sorted))
        F[i \in 0..Len(s)] == IF i = 0 THEN <<>> ELSE Ins(F[i - 1], s[i])
    IN  F[Len(s)]

\* The rows s sorted on the column at position j; rows with equal keys stay in
\* the order of s.
RECURSIVE SortRows(_, _, _)
SortRows(s, j, desc) ==
    IF s = <<>> THEN <<>>
    ELSE LET Before(a, b) == IF desc THEN ValueLess(CellAt(b, j), CellAt(a, j))
                             ELSE ValueLess(CellAt(a, j), CellAt(b, j))
             i == CHOOSE i \in 1..Len(s) :
                      /\ \A o \in 1..Len(s) : ~Before(s[o], s[i])
                      /\ \A o \in 1..(i - 1) : Before(s[i], s[o]) \/ Before(s[o], s[i])
         IN  <<s[i]>> \o SortRows(SubSeq(s, 1, i - 1) \o SubSeq(s, i + 1, Len(s)), j, desc)

FilterSeq(s, Keep(_)) ==
    LET F[i \in 0..Len(s)] ==
            IF i = 0 THEN <<>>
            ELSE IF Keep(s[i]) THEN Append(F[i - 1], s[i]) ELSE F[i - 1]
    IN  F[Len(s)]

\* LIMIT lim OFFSET off.
Page(s, lim, off) == SubSeq(s, off + 1, IF off + lim < Len(s) THEN off + lim ELSE Len(s))

\* ORDER BY "name": the result column _rowid, else a column of the table or
\* its row identifier, else (-1) a string literal, which orders nothing.
OrderColumnFirst(t, name) ==
    IF name = KeyRowid THEN 0
    ELSE IF ColIndex(t, name) = -1 THEN 1 ELSE ColIndex(t, name)

OrderColumn(t, name) == IF name = KeyRowid THEN 0 ELSE ColIndex(t, name)

QueryResult(err, columns, rows) == [err |-> err, columns |-> columns, rows |-> rows]

\* SELECT rowid as _rowid, * FROM <qtable> [WHERE (<qwhere[i]> LIKE ? OR ...)]
\*   [ORDER BY <qorder> <dir>] LIMIT ? OFFSET ?
\* with args bound: one pattern per WHERE column, then the limit and the offset.
\* qorder is <<>> when the statement has no ORDER BY.  A double-quoted name
\* that resolves to no column is read as a string literal (SQLite's
\* double-quoted string fallback), so it orders nothing.
EngineSelect(d, qtable, qwhere, qorder, dir, args) ==
    LET tname == Unquote(qtable) IN
    IF tname \notin DOMAIN d THEN QueryResult("no such table", <<>>, <<>>)
    ELSE
    LET t == d[tname]
        n == Len(qwhere)
        kept == FilterSeq(ScanOrder(t.rows), LAMBDA r : RowMatches(t, r, qwhere, args))
        oj == IF qorder = <<>> THEN -1 ELSE OrderColumn(t, Unquote(qorder))
        sorted == IF oj = -1 THEN kept ELSE SortRows(kept, oj, dir = "DESC")
        lim == ParseDigits(args[n + 1].v)
        off == ParseDigits(args[n + 2].v)
        paged == Page(sorted, lim, off)
    IN  IF Len(args) # n + 2 THEN QueryResult("bind error", <<>>, <<>>)
        ELSE QueryResult("",
                 <<KeyRowid>> \o [j \in 1..Len(t.cols) |-> t.cols[j].name],
                 [i \in 1..Len(paged) |->
                     <<IntVal(FormatNat(paged[i].rowid))>> \o paged[i].vals])

EngineCountNone(d, qtable, qwhere, args) == [err |-> "", count |-> 0]

\* SELECT COUNT(1) FROM <qtable> [WHERE (<qwhere[i]> LIKE ? OR ...)]
EngineCount(d, qtable, qwhere, args) ==
    LET tname == Unquote(qtable) IN
    IF tname \notin DOMAIN d THEN [err |-> "no such table", count |-> 0]
    ELSE IF Len(args) # Len(qwhere) THEN [err |-> "bind error", count |-> 0]
    ELSE LET t == d[tname]
         IN  [err |-> "",
              count |-> Cardinality({r \in t.rows : RowMatches(t, r, qwhere, args)})]

\* PRAGMA table_info(<qtable>): the names of the declared columns, in order;
\* no row and no error for a table that does not exist.
EngineTableInfo(d, qtable) ==
    LET tname == Unquote(qtable) IN
    IF tname \notin DOMAIN d THEN <<>>
    ELSE [j \in 1..Len(d[tname].cols) |-> d[tname].cols[j].name]

(***************************************************************************)
(* The handlers.  Each is an operator from the database and the request to *)
(* an outcome: the database afterwards, the response, the identifiers it   *)
(* embedded into SQL text and the number of statements it executed.        *)
(***************************************************************************)
DefaultLimit == 100

Outcome(d, r, idents, n) == [db |-> d, resp |-> r, idents |-> idents, nsql |-> n]

ErrorResp(status, msg) == [status |-> status, error |-> msg]

\* A query or path parameter that is to be read as a number: absent, present
\* but not a number, or a number.
AbsentParam == [kind |-> "absent", n |-> 0]
TextParam == [kind |-> "text", n |-> 0]
IntParam(n) == [kind |-> "int", n |-> n]

\* c.DefaultQuery(key, dflt): the value of the key when the query string has
\* the key, even with an empty value; dflt when it has not.
DefaultQuery(present, value, dflt) == IF present THEN value ELSE dflt

\* limit, _ := strconv.Atoi(c.DefaultQuery(key, dflt)): the error is dropped
\* and Atoi's result on an error is 0.
AtoiQuery(p, dflt) ==
    CASE p.kind = "absent" -> dflt
      [] p.kind = "text" -> 0
      [] OTHER -> p.n

NormLimitNegative(limit) == IF limit < 0 THEN DefaultLimit ELSE limit

NormLimit(limit) == IF limit <= 0 THEN DefaultLimit ELSE limit

NormOffset(offset) == IF offset < 0 THEN 0 ELSE offset

NormDir(dir) == IF dir # "ASC" /\ dir # "DESC" THEN "ASC" ELSE dir

\* normalizeValue: a []byte becomes a string, anything else passes.
NormalizeValue(val) == IF val.k = "blob" THEN TextVal(val.v) ELSE val

\* row := map[string]interface{}{}; for i, col := range columns
\*     { row[col] = normalizeValue(values[i]) }
RowMap(columns, values) ==
    [c \in Range(columns) |->
        NormalizeValue(values[MaxOf({i \in 1..Len(columns) : columns[i] = c})])]

\* args = append(args, limit, offset) for "LIMIT ? OFFSET ?".
PageArgsSwapped(limit, offset) == <<IntVal(FormatNat(offset)), IntVal(FormatNat(limit))>>

PageArgs(limit, offset) == <<IntVal(FormatNat(limit)), IntVal(FormatNat(offset))>>

TotalArgsAll(args) == args

\* totalArgs := args[:len(args)-2]
TotalArgs(args) == SubSeq(args, 1, Len(args) - 2)

\* The count statement: "SELECT COUNT(1) FROM <table>", with the WHERE clause
\* of the row query and its arguments when there is one.
CountStatementUnfiltered(qtable, searchConditions, args) ==
    [table |-> qtable, where |-> <<>>, args |-> <<>>]

CountStatement(qtable, searchConditions, args) ==
    IF Len(searchConditions) > 0
    THEN [table |-> qtable, where |-> searchConditions, args |-> TotalArgs(args)]
    ELSE [table |-> qtable, where |-> <<>>, args |-> <<>>]

\* The search columns of handleGetTableData: every column PRAGMA table_info
\* lists, when a search term is given.
SearchColumnsIfPresent(d, r) ==
    IF r.hasSearch THEN EngineTableInfo(d, QuoteIdentifier(r.table)) ELSE <<>>

SearchColumns(d, r) ==
    IF DefaultQuery(r.hasSearch, r.search, <<>>) # <<>>
    THEN EngineTableInfo(d, QuoteIdentifier(r.table))
    ELSE <<>>

\* The row statement of a fetch: the table, the search conditions (the quoted
\* column of each "<col> LIKE ?"), the ORDER BY column (<<>>: none) and the
\* direction, and the arguments in the order they are appended.
SelectStatement(d, r) ==
    LET limit == NormLimit(AtoiQuery(r.limit, DefaultLimit))
        offset == NormOffset(AtoiQuery(r.offset, 0))
        search == DefaultQuery(r.hasSearch, r.search, <<>>)
        colNames == SearchColumns(d, r)
        sorting == r.orderBy # <<>> /\ IsSafeIdentifier(r.orderBy)
    IN  [table |-> QuoteIdentifier(r.table),
         where |-> [i \in 1..Len(colNames) |-> QuoteIdentifier(colNames[i])],
         order |-> IF sorting THEN QuoteIdentifier(r.orderBy) ELSE <<>>,
         dir |-> NormDir(r.orderDir),
         args |-> [i \in 1..Len(colNames) |-> TextVal(<<37>> \o search \o <<37>>)]
                      \o PageArgs(limit, offset)]

\* GET /api/tables/:table
\* d is the database when the SELECT runs, dCount the database when the
\* COUNT runs (the handler opens no transaction around the two).
GetTableDataOver(d, dCount, r) ==
    IF ~IsSafeIdentifier(r.table)
    THEN Outcome(d, ErrorResp(400, "invalid table name"), {}, 0)
    ELSE
    LET limit == NormLimit(AtoiQuery(r.limit, DefaultLimit))
        offset == NormOffset(AtoiQuery(r.offset, 0))
        search == DefaultQuery(r.hasSearch, r.search, <<>>)
        colNames == SearchColumns(d, r)
        stmt == SelectStatement(d, r)
        searchConditions == stmt.where
        sorting == r.orderBy # <<>> /\ IsSafeIdentifier(r.orderBy)
        args == stmt.args
        sel == EngineSelect(d, stmt.table, stmt.where, stmt.order, stmt.dir, stmt.args)
        idents == {r.table} \cup Range(colNames)
                      \cup (IF sorting THEN {r.orderBy} ELSE {})
        nsel == IF search # <<>> THEN 2 ELSE 1
        data == [i \in 1..Len(sel.rows) |-> RowMap(sel.columns, sel.rows[i])]
        total == CountStatement(QuoteIdentifier(r.table), searchConditions, args)
        cnt == EngineCount(dCount, total.table, total.where, total.args)
    IN  IF sel.err # "" THEN Outcome(d, ErrorResp(400, sel.err), idents, nsel)
        ELSE IF cnt.err # "" THEN Outcome(d, ErrorResp(500, cnt.err), idents, nsel + 1)
        ELSE Outcome(d,
                 [status |-> 200, columns |-> sel.columns, rows |-> data,
                  total |-> cnt.count, limit |-> limit, offset |-> offset],
                 idents, nsel + 1)

\* A fetch that no other request overlaps.
GetTableData(d, r) == GetTableDataOver(d, d, r)

\* rowid, err := strconv.ParseInt(rowidStr, 10, 64); if err != nil || rowid <= 0
RowidOkNonNegative(p) == p.kind = "int" /\ p.n >= 0

RowidOk(p) == p.kind = "int" /\ p.n > 0

\* affected, _ := res.RowsAffected(); if affected == 0
RowMissingNever(res) == res.rowsAffected < 0

RowMissing(res) == res.rowsAffected = 0

\* delete(payload, "_rowid")
KeepRowidKey(m) == m

StripRowid(m) == [c \in DOMAIN m \ {KeyRowid} |-> m[c]]

\* The first key, in the order the map is ranged over, that fails the
\* validator: <<>> when every key passes.
FirstUnsafe(order) ==
    LET bad == {i \in 1..Len(order) : ~IsSafeIdentifier(order[i])}
    IN  IF bad = {} THEN <<>> ELSE order[CHOOSE i \in bad : \A o \in bad : i <= o]

\* PATCH /api/tables/:table/rows/:rowid.  order is the order in which the
\* range over the payload map visits its keys.
\* The UPDATE of handleUpdateRow when the payload map is ranged over in the
\* given order: the quoted column of each "<col> = ?" and the arguments.
UpdateStatement(r, order) ==
    LET payload == StripRowid(r.payload.m)
    IN  [table |-> QuoteIdentifier(r.table),
         set |-> [i \in 1..Len(order) |-> QuoteIdentifier(order[i])],
         args |-> [i \in 1..Len(order) |-> payload[order[i]]]
                      \o <<IntVal(FormatNat(r.rowid.n))>>]

UpdateRow(d, r, order) ==
    IF ~IsSafeIdentifier(r.table)
    THEN Outcome(d, ErrorResp(400, "invalid table name"), {}, 0)
    ELSE IF ~RowidOk(r.rowid)
    THEN Outcome(d, ErrorResp(400, "invalid rowid"), {}, 0)
    ELSE IF ~r.payload.valid
    THEN Outcome(d, ErrorResp(400, "invalid JSON payload"), {}, 0)
    ELSE
    LET payload == StripRowid(r.payload.m)
        stmt == UpdateStatement(r, order)
        res == EngineUpdate(d, stmt.table, stmt.set, stmt.args)
        idents == {r.table} \cup Range(order)
    IN  IF DOMAIN payload = {}
        THEN Outcome(d, ErrorResp(400, "no columns to update"), {}, 0)
        ELSE IF FirstUnsafe(order) # <<>>
        THEN Outcome(d, [status |-> 400, error |-> "invalid column",
                         column |-> FirstUnsafe(order)], {}, 0)
        ELSE IF res.err # "" THEN Outcome(res.db, ErrorResp(400, res.err), idents, 1)
        ELSE IF RowMissing(res)
        THEN Outcome(res.db, ErrorResp(404, "row not found"), idents, 1)
        ELSE Outcome(res.db, [status |-> 200, updated |-> res.rowsAffected], idents, 1)

\* rowid, _ := res.LastInsertId()
InsertedAffected(res) == res.rowsAffected

InsertedRowid(res) == res.lastInsertId

\* POST /api/tables/:table/rows
\* The INSERT of handleInsertRow when the payload map is ranged over in the
\* given order: the quoted columns, one placeholder each, and the arguments.
InsertStatement(r, order) ==
    [table |-> QuoteIdentifier(r.table),
     columns |-> [i \in 1..Len(order) |-> QuoteIdentifier(order[i])],
     placeholders |-> Len(order),
     args |-> [i \in 1..Len(order) |-> r.payload.m[order[i]]]]

InsertRow(d, r, order) ==
    IF ~IsSafeIdentifier(r.table)
    THEN Outcome(d, ErrorResp(400, "invalid table name"), {}, 0)
    ELSE IF ~r.payload.valid
    THEN Outcome(d, ErrorResp(400, "invalid JSON payload"), {}, 0)
    ELSE
    LET payload == r.payload.m
        stmt == InsertStatement(r, order)
        res == EngineInsert(d, stmt.table, stmt.columns, stmt.args)
        idents == {r.table} \cup Range(order)
    IN  IF DOMAIN payload = {}
        THEN Outcome(d, ErrorResp(400, "no columns to insert"), {}, 0)
        ELSE IF FirstUnsafe(order) # <<>>
        THEN Outcome(d, [status |-> 400, error |-> "invalid column",
                         column |-> FirstUnsafe(order)], {}, 0)
        ELSE IF res.err # "" THEN Outcome(res.db, ErrorResp(400, res.err), idents, 1)
        ELSE Outcome(res.db, [status |-> 200, rowid |-> InsertedRowid(res)], idents, 1)

\* DELETE /api/tables/:table/rows/:rowid
DeleteRow(d, r) ==
    IF ~IsSafeIdentifier(r.table)
    THEN Outcome(d, ErrorResp(400, "invalid table name"), {}, 0)
    ELSE IF ~RowidOk(r.rowid)
    THEN Outcome(d, ErrorResp(400, "invalid rowid"), {}, 0)
    ELSE
    LET res == EngineDelete(d, QuoteIdentifier(r.table), <<IntVal(FormatNat(r.rowid.n))>>)
    IN  IF res.err # "" THEN Outcome(res.db, ErrorResp(400, res.err), {r.table}, 1)
        ELSE IF RowMissing(res)
        THEN Outcome(res.db, ErrorResp(404, "row not found"), {r.table}, 1)
        ELSE Outcome(res.db, [status |-> 200, deleted |-> res.rowsAffected], {r.table}, 1)

(***************************************************************************)
(* The ad-hoc query path (server.go 559-632).                              *)
(***************************************************************************)
\* unicode.IsSpace on the Latin-1 range: \t \n \v \f \r, space, NEL, NBSP.
IsSpace(c) == c \in {9, 10, 11, 12, 13, 32, 133, 160}

RECURSIVE TrimLeft(_)
TrimLeft(s) == IF s # <<>> /\ IsSpace(Head(s)) THEN TrimLeft(Tail(s)) ELSE s

RECURSIVE TrimRight(_)
TrimRight(s) ==
    IF s # <<>> /\ IsSpace(s[Len(s)]) THEN TrimRight(SubSeq(s, 1, Len(s) - 1)) ELSE s

TrimSpace(s) == TrimRight(TrimLeft(s))

ToUpperRune(c) == IF c >= 97 /\ c <= 122 THEN c - 32 ELSE c

ToUpper(s) == [i \in 1..Len(s) |-> ToUpperRune(s[i])]

KwSelect == <<83, 69, 76, 69, 67, 84>>      \* "SELECT"
KwWith == <<87, 73, 84, 72>>                \* "WITH"

\* queryUpper := strings.ToUpper(strings.TrimSpace(req.Query))
\* isSelect := HasPrefix(queryUpper, "SELECT") || HasPrefix(queryUpper, "WITH")
IsSelectNoTrim(text) ==
    HasPrefix(ToUpper(text), KwSelect) \/ HasPrefix(ToUpper(text), KwWith)

IsSelect(text) ==
    LET queryUpper == ToUpper(TrimSpace(text))
    IN  HasPrefix(queryUpper, KwSelect) \/ HasPrefix(queryUpper, KwWith)

\* The statement texts of the model.
QEmpty == <<>>
QBlank == <<32, 10>>                         \* " \n"
\* " select * from t"
QSelect == <<32, 115, 101, 108, 101, 99, 116, 32, 42, 32, 102, 114, 111, 109, 32, 116>>
\* "WITH d AS (SELECT 1) SELECT * FROM t"
QWith == <<87, 73, 84, 72, 32, 100, 32, 65, 83, 32, 40, 83, 69, 76, 69, 67, 84, 32,
           49, 41, 32, 83, 69, 76, 69, 67, 84, 32, 42, 32, 70, 82, 79, 77, 32, 116>>
\* "DROP TABLE t"
QDrop == <<68, 82, 79, 80, 32, 84, 65, 66, 76, 69, 32, 116>>
\* "CREATE TABLE t(n INT,"a b")"
QCreate == <<67, 82, 69, 65, 84, 69, 32, 84, 65, 66, 76, 69, 32, 116, 40, 110, 32,
             73, 78, 84, 44, 34, 97, 32, 98, 34, 41>>
\* "INSERT INTO t VALUES(2,'x')"
QInsert == <<73, 78, 83, 69, 82, 84, 32, 73, 78, 84, 79, 32, 116, 32, 86, 65, 76,
             85, 69, 83, 40, 50, 44, 39, 120, 39, 41>>
\* "DELETE FROM t;X"
QDeleteThenX == <<68, 69, 76, 69, 84, 69, 32, 70, 82, 79, 77, 32, 116, 59, 88>>
\* "WITH d AS (SELECT 1) DELETE FROM t"
QWithDelete == <<87, 73, 84, 72, 32, 100, 32, 65, 83, 32, 40, 83, 69, 76, 69, 67, 84, 32,
                 49, 41, 32, 68, 69, 76, 69, 84, 69, 32, 70, 82, 79, 77, 32, 116>>
\* "CREATE TABLE t(n INT,zz)"
QCreateZZ == <<67, 82, 69, 65, 84, 69, 32, 84, 65, 66, 76, 69, 32, 116, 40, 110, 32,
               73, 78, 84, 44, 122, 122, 41>>
\* "SELECT n, rowid AS n FROM t"
QSelectSameName == <<83, 69, 76, 69, 67, 84, 32, 110, 44, 32, 114, 111, 119, 105, 100, 32,
                     65, 83, 32, 110, 32, 70, 82, 79, 77, 32, 116>>
\* "selec 1"
QTypo == <<115, 101, 108, 101, 99, 32, 49>>

\* "CREATE TABLE sqlitex(n INT)"
QCreateX == <<67, 82, 69, 65, 84, 69, 32, 84, 65, 66, 76, 69, 32, 115, 113, 108, 105,
              116, 101, 120, 40, 110, 32, 73, 78, 84, 41>>
\* "CREATE TABLE s(id INTEGER PRIMARY KEY AUTOINCREMENT)"
QCreateSeq == <<67, 82, 69, 65, 84, 69, 32, 84, 65, 66, 76, 69, 32, 115, 40, 105, 100,
                32, 73, 78, 84, 69, 71, 69, 82, 32, 80, 82, 73, 77, 65, 82, 89, 32, 75,
                69, 89, 32, 65, 85, 84, 79, 73, 78, 67, 82, 69, 77, 69, 78, 84, 41>>
\* "CREATE TABLE sqlite_sequence(name,seq)", the text the engine records for
\* the table it creates with the first AUTOINCREMENT table
SqlOfSequence == <<67, 82, 69, 65, 84, 69, 32, 84, 65, 66, 76, 69, 32, 115, 113, 108,
                   105, 116, 101, 95, 115, 101, 113, 117, 101, 110, 99, 101, 40, 110,
                   97, 109, 101, 44, 115, 101, 113, 41>>

TblX == <<115, 113, 108, 105, 116, 101, 120>>                    \* "sqlitex"
TblS == <<115>>                                                  \* "s"
TblSequence == <<115, 113, 108, 105, 116, 101, 95, 115, 101, 113, 117, 101, 110, 99,
                 101>>                                           \* "sqlite_sequence"

QueryTexts ==
    {QEmpty, QBlank, QSelect, QWith, QDrop, QCreate, QInsert, QDeleteThenX, QWithDelete,
     QSelectSameName, QTypo}

\* The columns CREATE TABLE t(n INT,"a b") declares: INT gives INTEGER
\* affinity, a column without a type none.
ColsOfT == <<[name |-> ColN, aff |-> "INTEGER"], [name |-> ColAB, aff |-> "NONE"]>>

ColsOfZZ == <<[name |-> ColN, aff |-> "INTEGER"], [name |-> ColZZ, aff |-> "NONE"]>>

\* The columns of sqlitex(n INT), of s(id INTEGER PRIMARY KEY AUTOINCREMENT)
\* and of sqlite_sequence(name,seq).  No request of the model writes a row
\* into these tables.
ColsOfX == <<[name |-> ColN, aff |-> "INTEGER"]>>
ColsOfS == <<[name |-> <<105, 100>>, aff |-> "INTEGER"]>>
ColsOfSequence == <<[name |-> <<110, 97, 109, 101>>, aff |-> "NONE"],
                    [name |-> <<115, 101, 113>>, aff |-> "NONE"]>>

NewTable(cols, sql) == [cols |-> cols, sql |-> sql, rows |-> {}]

\* The engine's parse of a statement text: the statements it holds, in order.
Script(text) ==
    CASE text = QSelect -> <<[op |-> "select", table |-> TblT]>>
      [] text = QWith -> <<[op |-> "select", table |-> TblT]>>
      [] text = QDrop -> <<[op |-> "drop", table |-> TblT]>>
      [] text = QCreate ->
             <<[op |-> "create", table |-> TblT, def |-> NewTable(ColsOfT, QCreate),
                autoincrement |-> FALSE]>>
      [] text = QCreateX ->
             <<[op |-> "create", table |-> TblX, def |-> NewTable(ColsOfX, QCreateX),
                autoincrement |-> FALSE]>>
      [] text = QCreateSeq ->
             <<[op |-> "create", table |-> TblS, def |-> NewTable(ColsOfS, QCreateSeq),
                autoincrement |-> TRUE]>>
      [] text = QInsert -> <<[op |-> "insert", table |-> TblT]>>
      [] text = QDeleteThenX -> <<[op |-> "deleteall", table |-> TblT], [op |-> "syntax"]>>
      [] text = QWithDelete -> <<[op |-> "deleteall", table |-> TblT]>>
      [] text = QSelectSameName -> <<[op |-> "selectsame", table |-> TblT]>>
      [] text = QCreateZZ ->
             <<[op |-> "create", table |-> TblT, def |-> NewTable(ColsOfZZ, QCreateZZ),
                autoincrement |-> FALSE]>>
      [] OTHER -> <<[op |-> "syntax"]>>

\* The result of one statement: changes and lastId are -1 when the statement
\* leaves the connection's counters (sqlite3_changes,
\* sqlite3_last_insert_rowid) as they were.
StepResult(err, d, columns, rows, changes, lastId) ==
    [err |-> err, db |-> d, columns |-> columns, rows |-> rows,
     changes |-> changes, lastId |-> lastId]

EngineStep(d, st) ==
    IF st.op = "syntax" THEN StepResult("syntax error", d, <<>>, <<>>, -1, -1)
    ELSE IF st.op = "create"
    THEN IF st.table \in DOMAIN d
         THEN StepResult("table already exists", d, <<>>, <<>>, -1, -1)
         ELSE StepResult("",
                  [x \in DOMAIN d \cup {st.table}
                          \cup (IF st.autoincrement THEN {TblSequence} ELSE {}) |->
                      IF x = st.table THEN st.def
                      ELSE IF x \in DOMAIN d THEN d[x]
                      ELSE NewTable(ColsOfSequence, SqlOfSequence)],
                  <<>>, <<>>, -1, -1)
    ELSE IF st.table \notin DOMAIN d
    THEN StepResult("no such table", d, <<>>, <<>>, -1, -1)
    ELSE
    LET t == d[st.table]
        scan == ScanOrder(t.rows)
        ins == EngineInsert(d, QuoteIdentifier(st.table),
                   [j \in 1..Len(t.cols) |-> QuoteIdentifier(t.cols[j].name)],
                   <<IntVal(<<50>>), TextVal(<<120>>)>>)
    IN  CASE st.op = "select" ->
                 StepResult("", d, [j \in 1..Len(t.cols) |-> t.cols[j].name],
                            [i \in 1..Len(scan) |-> scan[i].vals], -1, -1)
          [] st.op = "selectsame" ->
                 StepResult("", d, <<t.cols[1].name, t.cols[1].name>>,
                            [i \in 1..Len(scan) |->
                                <<scan[i].vals[1], IntVal(FormatNat(scan[i].rowid))>>],
                            -1, -1)
          [] st.op = "drop" ->
                 StepResult("", [x \in DOMAIN d \ {st.table} |-> d[x]], <<>>, <<>>, -1, -1)
          [] st.op = "deleteall" ->
                 StepResult("", [d EXCEPT ![st.table].rows = {}], <<>>, <<>>,
                            Cardinality(t.rows), -1)
          [] st.op = "insert" ->
                 StepResult(ins.err, ins.db, <<>>, <<>>,
                            IF ins.err = "" THEN 1 ELSE -1,
                            IF ins.err = "" THEN ins.lastInsertId ELSE -1)

\* db.Exec / db.Query of a text: its statements run one after the other, each
\* in its own implicit transaction, until one fails; what the earlier ones
\* did stays.  The last statement's rows are the rows of the result.
KeepCounters(one, before) ==
    [one EXCEPT !.changes = IF one.changes = -1 THEN before.changes ELSE one.changes,
                !.lastId = IF one.lastId = -1 THEN before.lastId ELSE one.lastId]

EngineRun(d, stmts, conn) ==
    LET Run[i \in 0..Len(stmts)] ==
            IF i = 0 THEN StepResult("", d, <<>>, <<>>, conn.changes, conn.lastId)
            ELSE IF Run[i - 1].err # "" THEN Run[i - 1]
            ELSE KeepCounters(EngineStep(Run[i - 1].db, stmts[i]), Run[i - 1])
    IN  Run[Len(stmts)]

\* POST /api/query.  conn holds the counters of the pooled connection the
\* statement happens to run on, left by whatever ran on it before.
ExecuteQuery(d, r, conn) ==
    IF ~r.valid THEN Outcome(d, ErrorResp(400, "invalid JSON payload"), {}, 0)
    ELSE IF TrimSpace(r.query) = <<>>
    THEN Outcome(d, ErrorResp(400, "query cannot be empty"), {}, 0)
    ELSE
    LET res == EngineRun(d, Script(r.query), conn)
        data == [i \in 1..Len(res.rows) |-> RowMap(res.columns, res.rows[i])]
    IN  IF IsSelect(r.query)
        THEN \* rows, err := s.db.Query(req.Query)
             IF res.err # "" THEN Outcome(res.db, ErrorResp(400, res.err), {}, 1)
             ELSE Outcome(res.db,
                      [status |-> 200, type |-> "select", columns |-> res.columns,
                       rows |-> data], {}, 1)
        ELSE \* result, err := s.db.Exec(req.Query)
             IF res.err # "" THEN Outcome(res.db, ErrorResp(400, res.err), {}, 1)
             ELSE Outcome(res.db,
                      [status |-> 200, type |-> "write", rowsAffected |-> res.changes,
                       lastInsertId |-> res.lastId], {}, 1)

(***************************************************************************)
(* The table list.                                                         *)
(***************************************************************************)
SystemPattern == <<115, 113, 108, 105, 116, 101, 95, 37>>        \* "sqlite_%"

\* The names in ascending order (ORDER BY name, BINARY collation).
RECURSIVE SortNames(_)
SortNames(names) ==
    IF names = {} THEN <<>>
    ELSE LET first == CHOOSE x \in names : \A y \in names : ~SeqLess(y, x)
         IN  <<first>> \o SortNames(names \ {first})

\* SELECT name FROM sqlite_schema WHERE type = 'table'
\*   AND name NOT LIKE <pattern> ORDER BY name
EngineTableNames(d, pattern) ==
    SortNames({x \in DOMAIN d : ~LikeMatch(pattern, x)})

\* GET /api/tables
ListTables(d) ==
    Outcome(d, [status |-> 200, tables |-> EngineTableNames(d, SystemPattern)], {}, 1)

(***************************************************************************)
(* Export (export.go).                                                     *)
(***************************************************************************)
\* SELECT * FROM <qtable>
EngineSelectAll(d, qtable) ==
    LET tname == Unquote(qtable) IN
    IF tname \notin DOMAIN d THEN QueryResult("no such table", <<>>, <<>>)
    ELSE LET t == d[tname]
             scan == ScanOrder(t.rows)
         IN  QueryResult("", [j \in 1..Len(t.cols) |-> t.cols[j].name],
                         [i \in 1..Len(scan) |-> scan[i].vals])

fetchAllRows(d, table) ==
    IF ~IsSafeIdentifier(table)
    THEN [err |-> "invalid table name", columns |-> <<>>, rows |-> <<>>]
    ELSE LET res == EngineSelectAll(d, QuoteIdentifier(table))
         IN  [err |-> res.err, columns |-> res.columns,
              rows |-> [i \in 1..Len(res.rows) |-> RowMap(res.columns, res.rows[i])]]

getTableSchemaBlank(d, table) == [err |-> "", schema |-> <<>>]

\* SELECT sql FROM sqlite_master WHERE type='table' AND name=?
getTableSchema(d, table) ==
    IF table \in DOMAIN d THEN [err |-> "", schema |-> d[table].sql]
    ELSE [err |-> "sql: no rows in result set", schema |-> <<>>]

\* A Go bool, which formatSQLValue provides for: v is its %v text.
BoolVal(b) == [k |-> "bool", v |-> IF b THEN <<116, 114, 117, 101>>
                                        ELSE <<102, 97, 108, 115, 101>>]

\* fmt.Sprintf("%v", v), "%d" and "%g" of the values of the model: the
\* decimal digits of an int64 and of an integral float64, a string as it is.
Sprintf(val) == val.v

\* "<nil>", the "%v" text of a nil value
csvValueNil(val) == IF val.k = "null" THEN <<60, 110, 105, 108, 62>> ELSE Sprintf(val)

csvValue(val) == IF val.k = "null" THEN <<>> ELSE Sprintf(val)

\* strings.ReplaceAll(s, "'", "''")
RECURSIVE DoubleApostrophes(_)
DoubleApostrophes(s) ==
    IF s = <<>> THEN <<>>
    ELSE (IF Head(s) = 39 THEN <<39, 39>> ELSE <<Head(s)>>) \o DoubleApostrophes(Tail(s))

SqlNull == <<78, 85, 76, 76>>                \* "NULL"

formatSQLValueUnescaped(val) ==
    CASE val.k = "null" -> SqlNull
      [] val.k \in {"text", "blob"} -> <<39>> \o val.v \o <<39>>
      [] val.k = "bool" -> IF val = BoolVal(TRUE) THEN <<49>> ELSE <<48>>
      [] OTHER -> Sprintf(val)

formatSQLValue(val) ==
    CASE val.k = "null" -> SqlNull
      [] val.k \in {"text", "blob"} -> <<39>> \o DoubleApostrophes(val.v) \o <<39>>
      [] val.k = "bool" -> IF val = BoolVal(TRUE) THEN <<49>> ELSE <<48>>
      [] OTHER -> Sprintf(val)

\* writer.Write(columns), then one writer.Write(record) per row.
exportCSV(d, table) ==
    LET f == fetchAllRows(d, table)
    IN  IF f.err # "" THEN Outcome(d, ErrorResp(500, f.err), {table}, 1)
        ELSE Outcome(d,
                 [status |-> 200, format |-> "csv", header |-> f.columns,
                  records |-> [i \in 1..Len(f.rows) |->
                                  [j \in 1..Len(f.columns) |->
                                      csvValue(f.rows[i][f.columns[j]])]]],
                 {table}, 1)

exportJSON(d, table) ==
    LET f == fetchAllRows(d, table)
    IN  IF f.err # "" THEN Outcome(d, ErrorResp(500, f.err), {table}, 1)
        ELSE Outcome(d, [status |-> 200, format |-> "json", rows |-> f.rows], {table}, 1)

\* buf.WriteString(schema + ";\n"), buf.WriteString("DELETE FROM ...;\n"),
\* then the INSERT statements.
DumpStatementsNoDelete(schema, qtable, inserts) ==
    <<[op |-> "schema", text |-> schema]>> \o inserts

DumpStatements(schema, qtable, inserts) ==
    <<[op |-> "schema", text |-> schema], [op |-> "delete", table |-> qtable]>> \o inserts

\* The statements of the dump, in order: the schema text, DELETE FROM
\* <table>, then INSERT INTO <table> (<cols>) VALUES (<vals>) per row.
\* dSchema is the database when getTableSchema runs, d the database when
\* fetchAllRows runs.
exportSQLOver(dSchema, d, table) ==
    LET sch == getTableSchema(dSchema, table)
        f == fetchAllRows(d, table)
        quotedCols == [j \in 1..Len(f.columns) |-> QuoteIdentifier(f.columns[j])]
        Insert(row) ==
            [op |-> "insert", table |-> QuoteIdentifier(table), cols |-> quotedCols,
             vals |-> [j \in 1..Len(f.columns) |-> formatSQLValue(row[f.columns[j]])]]
        dump == DumpStatements(sch.schema, QuoteIdentifier(table),
                               [i \in 1..Len(f.rows) |-> Insert(f.rows[i])])
    IN  IF sch.err # "" THEN Outcome(d, ErrorResp(500, sch.err), {}, 1)
        ELSE IF f.err # "" THEN Outcome(d, ErrorResp(500, f.err), {table}, 2)
        ELSE Outcome(d, [status |-> 200, format |-> "sql", dump |-> dump],
                     {table} \cup Range(f.columns), 2)

exportSQL(d, table) == exportSQLOver(d, d, table)

\* GET /api/tables/:table/export
ExportTable(d, r) ==
    IF ~IsSafeIdentifier(r.table)
    THEN Outcome(d, ErrorResp(400, "invalid table name"), {}, 0)
    ELSE LET format == DefaultQuery(r.hasFormat, r.format, "csv")
         IN  CASE format = "csv" -> exportCSV(d, r.table)
               [] format = "json" -> exportJSON(d, r.table)
               [] format = "sql" -> exportSQL(d, r.table)
               [] OTHER -> Outcome(d, ErrorResp(400, "unsupported format"), {}, 0)

\* The dump read back by the engine, one statement at a time, each in its
\* own implicit transaction; a statement that fails changes nothing and the
\* next one is run all the same.
RECURSIVE UndoubleApostrophes(_)
UndoubleApostrophes(s) ==
    IF s = <<>> THEN <<>>
    ELSE IF Len(s) >= 2 /\ s[1] = 39 /\ s[2] = 39
         THEN <<39>> \o UndoubleApostrophes(SubSeq(s, 3, Len(s)))
         ELSE <<Head(s)>> \o UndoubleApostrophes(Tail(s))

ParseLiteral(text) ==
    IF text = SqlNull THEN Null
    ELSE IF text # <<>> /\ Head(text) = 39
    THEN TextVal(UndoubleApostrophes(SubSeq(text, 2, Len(text) - 1)))
    ELSE IntVal(text)

ReplayStatement(d, st) ==
    CASE st.op = "schema" -> EngineRun(d, Script(st.text), [changes |-> 0, lastId |-> 0]).db
      [] st.op = "delete" ->
             EngineStep(d, [op |-> "deleteall", table |-> Unquote(st.table)]).db
      [] st.op = "insert" ->
             EngineInsert(d, st.table, st.cols,
                          [j \in 1..Len(st.vals) |-> ParseLiteral(st.vals[j])]).db

Replay(d, dump) ==
    LET R[i \in 0..Len(dump)] == IF i = 0 THEN d ELSE ReplayStatement(R[i - 1], dump[i])
    IN  R[Len(dump)]

(***************************************************************************)
(* The requests of the model.                                              *)
(***************************************************************************)
\* JSON bodies: a number decodes to float64 and is bound as a real, a string
\* as a text, null as NULL.
Two == RealVal(<<50>>)                       \* 2
Three == RealVal(<<51>>)                     \* 3
TextX == TextVal(<<120>>)                    \* "x"
TextTwo == TextVal(<<50>>)                   \* "2"
TextApostrophe == TextVal(<<39, 120>>)       \* "'x"

Body(m) == [valid |-> TRUE, m |-> m]

Payloads ==
    { [valid |-> FALSE, m |-> <<>>],
      Body(<<>>),
      Body([c \in {ColN} |-> Two]),
      Body([c \in {ColN} |-> TextX]),
      Body([c \in {ColN} |-> TextTwo]),
      Body([c \in {ColN} |-> Null]),
      Body([c \in {KeyRowid} |-> Two]),
      Body([c \in {KeyRowid, ColN} |-> IF c = ColN THEN TextX ELSE Two]),
      Body([c \in {ColZZ} |-> TextX]),
      Body([c \in {ColBad} |-> TextX]),
      Body([c \in {ColAB} |-> TextX]),
      Body([c \in {ColBad, ColN} |-> TextX]),
      Body([c \in {ColRowid} |-> Three]),
      Body([c \in {ColRowid, ColN} |-> IF c = ColN THEN TextX ELSE Two]) }

RowidParams == {TextParam} \cup {IntParam(n) : n \in -1..MaxRowid}

LimitParams == {AbsentParam, TextParam} \cup {IntParam(n) : n \in 0..MaxRows}

OffsetParams == {AbsentParam, TextParam} \cup {IntParam(n) : n \in -1..MaxRows}

\* "", "x", "X", "2", "_" (a LIKE wildcard), "'" (a quote)
SearchTerms == {<<>>, <<120>>, <<88>>, <<50>>, <<95>>, <<39>>}

\* hasSearch: the query string has a search key (no request of the model
\* has the key twice; search is <<>> when it has not the key).
FetchRequest(t, l, o, s, c, dir) ==
    [op |-> "fetch", table |-> t, limit |-> l, offset |-> o,
     hasSearch |-> s # <<>>, search |-> s, orderBy |-> c, orderDir |-> dir]

\* The same request with "search=" in its query string.
WithEmptySearch(r) == [r EXCEPT !.hasSearch = TRUE, !.search = <<>>]

\* Pages without a search, searches on the first pages, sorts of the whole
\* table, and a table name the validator refuses.
FetchRequests ==
    { FetchRequest(TblT, l, o, <<>>, <<>>, "ASC") : l \in LimitParams, o \in OffsetParams }
    \cup
    { FetchRequest(TblT, l, o, s, <<>>, "ASC") :
          l \in {AbsentParam, IntParam(1)}, o \in {AbsentParam, IntParam(1)},
          s \in SearchTerms \ {<<>>} }
    \cup
    { FetchRequest(TblT, AbsentParam, AbsentParam, <<>>, c, dir) :
          c \in {ColN, ColZZ, ColBad, ColRowid, KeyRowid}, dir \in {"ASC", "DESC", "desc"} }
    \cup
    { WithEmptySearch(FetchRequest(TblT, l, o, <<>>, <<>>, "ASC")) :
          l \in {AbsentParam, IntParam(1)}, o \in {AbsentParam, IntParam(1)} }
    \cup
    { FetchRequest(TblT, l, o, <<>>, ColN, dir) :
          l \in {TextParam, IntParam(0), IntParam(2)}, o \in {TextParam, IntParam(-1)},
          dir \in {"desc", "", "DESC"} }
    \cup
    { FetchRequest(TblBad, AbsentParam, AbsentParam, <<>>, <<>>, "ASC") }

InsertRequests ==
    { [op |-> "insert", table |-> TblT, payload |-> p] :
          p \in Payloads \cup {Body([c \in {ColN} |-> TextApostrophe])} }
    \cup
    { [op |-> "insert", table |-> TblBad, payload |-> Body([c \in {ColN} |-> Two])] }

UpdateRequest(t, id, p) == [op |-> "update", table |-> t, rowid |-> id, payload |-> p]

UpdateRequests ==
    { UpdateRequest(TblT, IntParam(n), p) : n \in 1..MaxRowid, p \in Payloads }
    \cup
    { UpdateRequest(TblT, id, Body([c \in {ColN} |-> Two])) : id \in RowidParams }
    \cup
    { UpdateRequest(TblBad, IntParam(1), Body([c \in {ColN} |-> Two])) }

DeleteRequests ==
    { [op |-> "delete", table |-> TblT, rowid |-> id] : id \in RowidParams }
    \cup
    { [op |-> "delete", table |-> TblBad, rowid |-> IntParam(1)] }

ExportRequests ==
    { [op |-> "export", table |-> TblT, hasFormat |-> f # "absent", format |-> f] :
          f \in {"absent", "csv", "json", "sql", "xml", ""} }
    \cup
    { [op |-> "export", table |-> TblBad, hasFormat |-> FALSE, format |-> "absent"] }

QueryRequests ==
    { [op |-> "query", valid |-> TRUE, query |-> q] : q \in QueryTexts }
    \cup {[op |-> "query", valid |-> FALSE, query |-> <<>>]}

\* What sqlite3_changes and sqlite3_last_insert_rowid may hold on a pooled
\* connection before a statement runs.
ConnCounters ==
    {[changes |-> 0, lastId |-> 0]} \cup {[changes |-> 1, lastId |-> n] : n \in 1..MaxRowid}

(***************************************************************************)
(* The state machine: one action per handler.                              *)
(***************************************************************************)
\* The model's bounds on the database.
WithinBounds(d) ==
    \A x \in DOMAIN d :
        /\ Cardinality(d[x].rows) <= MaxRows
        /\ \A r \in d[x].rows : r.rowid <= MaxRowid

NoRequest == [op |-> "none"]
NoResponse == [status |-> 0]

NoAck == [op |-> "none", table |-> <<>>, rowid |-> 0]

NoBoot == [pc |-> "none"]

NoReader == [pc |-> "idle", req |-> NoRequest, resp |-> NoResponse, writes |-> 0]

Callers == {1, 2}

NoCalls == [i \in Callers |-> [pc |-> "idle", req |-> NoRequest, resp |-> NoResponse]]

\* The server takes the request r and answers it with the outcome o; a is
\* the mutation then known to have succeeded.
ServeAck(r, o, a) ==
    /\ req = NoRequest
    /\ WithinBounds(o.db)
    /\ db' = o.db
    /\ dbPrev' = db
    /\ req' = r
    /\ resp' = o.resp
    /\ sqlIdents' = o.idents
    /\ executed' = o.nsql
    /\ acked' = a
    /\ UNCHANGED <<idVars, raceVars, boot, reader>>

Serve(r, o) == ServeAck(r, o, acked)

handleListTables == Serve([op |-> "list"], ListTables(db))

handleGetTableData == \E r \in FetchRequests : Serve(r, GetTableData(db, r))

handleInsertRow ==
    \E r \in InsertRequests :
        \E order \in Perms(DOMAIN r.payload.m) : Serve(r, InsertRow(db, r, order))

handleUpdateRow ==
    \E r \in UpdateRequests :
        \E order \in Perms(DOMAIN StripRowid(r.payload.m)) : Serve(r, UpdateRow(db, r, order))

handleDeleteRow == \E r \in DeleteRequests : Serve(r, DeleteRow(db, r))

handleExportTable == \E r \in ExportRequests : Serve(r, ExportTable(db, r))

handleExecuteQuery ==
    \E r \in QueryRequests :
        \E conn \in ConnCounters : Serve(r, ExecuteQuery(db, r, conn))

\* The response has been written and the handler has returned: the server
\* waits for the next request.
Returned ==
    /\ req # NoRequest
    /\ req' = NoRequest
    /\ resp' = NoResponse
    /\ dbPrev' = db
    /\ sqlIdents' = {}
    /\ executed' = 0
    /\ UNCHANGED <<db, idVars, acked, raceVars, boot, reader>>

\* The database file the server is started on: table t of
\* CREATE TABLE t(n INT,"a b") with one row.
InitDb ==
    [x \in {TblT} |->
        [cols |-> ColsOfT,
         sql |-> QCreate,
         rows |-> {[rowid |-> 1, vals |-> <<IntVal(<<50>>), TextVal(<<120>>)>>]}]]

Init ==
    /\ db = InitDb
    /\ dbPrev = InitDb
    /\ req = NoRequest
    /\ resp = NoResponse
    /\ sqlIdents = {}
    /\ executed = 0
    /\ idName = <<>>
    /\ idResult = "none"
    /\ acked = NoAck
    /\ calls = NoCalls
    /\ writeLock = 0
    /\ boot = NoBoot
    /\ reader = NoReader

Next ==
    \/ handleListTables
    \/ handleGetTableData
    \/ handleInsertRow
    \/ handleUpdateRow
    \/ handleDeleteRow
    \/ handleExportTable
    \/ handleExecuteQuery
    \/ Returned

Spec == Init /\ [][Next]_vars

(***************************************************************************)
(* Mutations followed by reads.  The same handlers on fewer requests and   *)
(* more tables; acked remembers the last mutation answered with success,   *)
(* until the database is changed again.                                    *)
(***************************************************************************)
Ack(op, table, rowid) == [op |-> op, table |-> table, rowid |-> rowid]

\* What is known to have succeeded once the request r, served on database d
\* with outcome o, has been answered.
Acknowledged(d, r, o) ==
    IF o.resp.status # 200 THEN (IF o.db = d THEN acked ELSE NoAck)
    ELSE CASE r.op = "insert" -> Ack("insert", r.table, o.resp.rowid)
           [] r.op = "update" -> Ack("update", r.table, r.rowid.n)
           [] r.op = "delete" -> Ack("delete", r.table, r.rowid.n)
           [] r.op = "query" /\ o.resp.type = "write" ->
                  LET st == Script(r.query)[Len(Script(r.query))]
                  IN  CASE st.op = "create" -> Ack("create", st.table, 0)
                        [] st.op = "drop" -> Ack("drop", st.table, 0)
                        [] st.op = "insert" -> Ack("insert", st.table, o.resp.lastInsertId)
                        [] OTHER -> NoAck
           [] OTHER -> acked

ServeAcknowledging(r, o) == ServeAck(r, o, Acknowledged(db, r, o))

FreshQueryTexts == {QDrop, QCreate, QCreateX, QCreateSeq, QInsert, QDeleteThenX}

FreshPayloads == {Body([c \in {ColN} |-> Two]), Body([c \in {ColN} |-> TextX])}

listAfter == ServeAcknowledging([op |-> "list"], ListTables(db))

fetchAfter ==
    \E t \in {TblT, TblX} :
        LET r == FetchRequest(t, AbsentParam, AbsentParam, <<>>, <<>>, "ASC")
        IN  ServeAcknowledging(r, GetTableData(db, r))

insertAcked ==
    \E p \in FreshPayloads :
        LET r == [op |-> "insert", table |-> TblT, payload |-> p]
        IN  \E order \in Perms(DOMAIN p.m) : ServeAcknowledging(r, InsertRow(db, r, order))

updateAcked ==
    \E n \in 1..MaxRowid, p \in FreshPayloads :
        LET r == UpdateRequest(TblT, IntParam(n), p)
        IN  \E order \in Perms(DOMAIN StripRowid(p.m)) :
                ServeAcknowledging(r, UpdateRow(db, r, order))

deleteAcked ==
    \E n \in 1..MaxRowid :
        LET r == [op |-> "delete", table |-> TblT, rowid |-> IntParam(n)]
        IN  ServeAcknowledging(r, DeleteRow(db, r))

queryAcked ==
    \E q \in FreshQueryTexts, conn \in ConnCounters :
        LET r == [op |-> "query", valid |-> TRUE, query |-> q]
        IN  ServeAcknowledging(r, ExecuteQuery(db, r, conn))

NextFresh ==
    \/ listAfter
    \/ fetchAfter
    \/ insertAcked
    \/ updateAcked
    \/ deleteAcked
    \/ queryAcked
    \/ Returned

SpecFresh == Init /\ [][NextFresh]_vars

(***************************************************************************)
(* Two update requests in progress at once.  Each handler runs on its own  *)
(* goroutine and its statement on its own pooled connection: sql.Open is   *)
(* given the bare file path, so the pool is unbounded and no busy timeout  *)
(* is set.  A statement that writes holds the database's write lock from   *)
(* its first write to its commit; a statement that asks for the lock while *)
(* another connection holds it fails at once with SQLITE_BUSY.             *)
(***************************************************************************)
\* CREATE TABLE t(n INT,zz) with one row.
RaceDb ==
    [x \in {TblT} |->
        [cols |-> ColsOfZZ,
         sql |-> QCreateZZ,
         rows |-> {[rowid |-> 1, vals |-> <<IntVal(<<49>>), Null>>]}]]

RacePayloads ==
    { Body([c \in {ColN} |-> Two]),
      Body([c \in {ColN} |-> TextX]),
      Body([c \in {ColZZ} |-> TextX]),
      Body([c \in {ColN, ColZZ} |-> Three]),
      Body([c \in {ColN, ColZZ} |-> TextTwo]) }

RaceRowids == {1, 2}

BusyError == "database is locked (5) (SQLITE_BUSY)"

\* The handler has read and validated its request and built its statement.
arrive(i) ==
    /\ calls[i].pc = "idle"
    /\ \E n \in RaceRowids, p \in RacePayloads :
           calls' = [calls EXCEPT ![i] = [pc |-> "ready",
                                          req |-> UpdateRequest(TblT, IntParam(n), p),
                                          resp |-> NoResponse]]
    /\ UNCHANGED <<db, writeLock>>

\* res, err := s.db.Exec(query, values...): the statement takes the write lock.
execBegin(i) ==
    /\ calls[i].pc = "ready"
    /\ writeLock = 0
    /\ boot = NoBoot
    /\ reader = NoReader
    /\ writeLock' = i
    /\ calls' = [calls EXCEPT ![i].pc = "writing"]
    /\ UNCHANGED db

\* ... or finds it taken: err != nil, 400.
execBusy(i) ==
    /\ calls[i].pc = "ready"
    /\ writeLock \notin {0, i}
    /\ calls' = [calls EXCEPT ![i].pc = "done", ![i].resp = ErrorResp(400, BusyError)]
    /\ UNCHANGED <<db, writeLock>>

\* The statement commits and the handler answers.
execCommit(i) ==
    /\ calls[i].pc = "writing"
    /\ \E order \in Perms(DOMAIN StripRowid(calls[i].req.payload.m)) :
           LET o == UpdateRow(db, calls[i].req, order)
           IN  /\ db' = o.db
               /\ calls' = [calls EXCEPT ![i].pc = "done", ![i].resp = o.resp]
    /\ writeLock' = 0

InitRace ==
    /\ db = RaceDb
    /\ dbPrev = RaceDb
    /\ req = NoRequest
    /\ resp = NoResponse
    /\ sqlIdents = {}
    /\ executed = 0
    /\ idName = <<>>
    /\ idResult = "none"
    /\ acked = NoAck
    /\ calls = NoCalls
    /\ writeLock = 0
    /\ boot = NoBoot
    /\ reader = NoReader

NextRace ==
    \E i \in Callers :
        /\ \/ arrive(i)
           \/ execBegin(i)
           \/ execBusy(i)
           \/ execCommit(i)
        /\ UNCHANGED <<dbPrev, req, resp, sqlIdents, executed, idVars, acked, boot, reader>>

SpecRace == InitRace /\ [][NextRace]_vars

(***************************************************************************)
(* The process from main to the listener (cmd main, server.go 23-43).      *)
(* env is what the process finds: its flags, the file system, the driver   *)
(* and the network.  log.Fatal ends the process.                           *)
(***************************************************************************)
Environments ==
    [dbFlag : BOOLEAN,      \* -db is given
     dbFile : BOOLEAN,      \* os.Stat finds a file that is no directory
     staticFlag : BOOLEAN,  \* -static is given
     staticOk : BOOLEAN,    \* the static directory, or the embedded build, loads
     openOk : BOOLEAN,      \* sql.Open returns no error
     pingOk : BOOLEAN,      \* db.Ping returns no error
     bindOk : BOOLEAN]      \* the listener binds its address

Booting(env) ==
    [pc |-> "flags", env |-> env, opened |-> FALSE, pinged |-> FALSE,
     routes |-> FALSE, listening |-> FALSE, served |-> 0, fatal |-> ""]

Fatal(msg) == [boot EXCEPT !.pc = "exited", !.fatal = msg]

\* db, err := sql.Open("sqlite", dbPath); if err != nil
OpenErr(env) == IF env.openOk THEN "" ELSE "open sqlite file"

\* if err := db.Ping(); err != nil
PingErrNever(env) == ""

PingErr(env) == IF env.pingOk THEN "" ELSE "ping sqlite file"

\* if *dbPath == "" { log.Fatal(...) }
checkFlag ==
    /\ boot.pc = "flags"
    /\ boot' = IF boot.env.dbFlag THEN [boot EXCEPT !.pc = "file"]
               ELSE Fatal("missing required -db flag pointing to a SQLite file")

\* if err := ensureFileExists(*dbPath); err != nil { log.Fatalf(...) }
checkFile ==
    /\ boot.pc = "file"
    /\ boot' = IF boot.env.dbFile THEN [boot EXCEPT !.pc = "static"]
               ELSE Fatal("cannot access database file")

\* http.Dir(*staticDir) after ensureDirExists, or server.EmbeddedStatic()
loadStatic ==
    /\ boot.pc = "static"
    /\ boot' = IF boot.env.staticOk THEN [boot EXCEPT !.pc = "open"]
               ELSE IF boot.env.staticFlag THEN Fatal("invalid static directory")
               ELSE Fatal("failed to load embedded assets")

\* server.New: sql.Open
openDb ==
    /\ boot.pc = "open"
    /\ boot' = IF OpenErr(boot.env) = "" THEN [boot EXCEPT !.pc = "ping", !.opened = TRUE]
               ELSE Fatal("failed to initialize server")

\* server.New: db.Ping
pingDb ==
    /\ boot.pc = "ping"
    /\ boot' = IF PingErr(boot.env) = ""
               THEN [boot EXCEPT !.pc = "routes", !.pinged = TRUE]
               ELSE Fatal("failed to initialize server")

\* server.New: gin.Default(), s.registerRoutes(), return s, nil
buildRouter ==
    /\ boot.pc = "routes"
    /\ boot' = [boot EXCEPT !.pc = "run", !.routes = TRUE]

\* srv.Run(*addr): s.router.Run(addr) listens, or returns its error
run ==
    /\ boot.pc = "run"
    /\ boot' = IF boot.env.bindOk THEN [boot EXCEPT !.pc = "listening", !.listening = TRUE]
               ELSE Fatal("server stopped")

\* The listener accepts a request and a handler answers it.
accept ==
    /\ boot.pc = "listening"
    /\ boot.served < MaxServed
    /\ boot' = [boot EXCEPT !.served = @ + 1]

InitStart ==
    /\ db = InitDb
    /\ dbPrev = InitDb
    /\ req = NoRequest
    /\ resp = NoResponse
    /\ sqlIdents = {}
    /\ executed = 0
    /\ idName = <<>>
    /\ idResult = "none"
    /\ acked = NoAck
    /\ calls = NoCalls
    /\ writeLock = 0
    /\ boot \in {Booting(env) : env \in Environments}
    /\ reader = NoReader

NextStart ==
    /\ \/ checkFlag
       \/ checkFile
       \/ loadStatic
       \/ openDb
       \/ pingDb
       \/ buildRouter
       \/ run
       \/ accept
    /\ UNCHANGED <<srvVars, idVars, acked, raceVars, reader>>

SpecStart == InitStart /\ [][NextStart]_vars

(***************************************************************************)
(* A fetch or an SQL export while other callers' requests are served.  The *)
(* handler runs two statements with no transaction around them (fetch:     *)
(* the SELECT of the page, server.go 149, then the COUNT, 188/203; export: *)
(* getTableSchema, export.go 49, then fetchAllRows, 53); each handler is   *)
(* its own goroutine, so whole requests of other callers can run between   *)
(* the two.  reader.first and reader.second are the databases the two       *)
(* statements read, reader.seen the databases from the one to the other.   *)
(***************************************************************************)
OverlapReads ==
    { FetchRequest(TblT, l, o, <<>>, <<>>, "ASC") :
          l \in {AbsentParam, IntParam(1), IntParam(2)}, o \in {AbsentParam, IntParam(1)} }
    \cup
    { [op |-> "export", table |-> TblT, hasFormat |-> TRUE, format |-> "sql"] }

OverlapQueries == {QDrop, QCreateZZ, QInsert}

\* The handler runs its first statement.
readFirst ==
    /\ reader.pc = "idle"
    /\ \E r \in OverlapReads :
           reader' = [pc |-> "between", req |-> r, resp |-> NoResponse,
                      writes |-> reader.writes, first |-> db, second |-> db,
                      seen |-> {db}]
    /\ UNCHANGED db

\* The handler runs its second statement and answers.
readSecond ==
    /\ reader.pc = "between"
    /\ reader' = [reader EXCEPT
                      !.pc = "done",
                      !.second = db,
                      !.resp = IF reader.req.op = "fetch"
                               THEN GetTableDataOver(reader.first, db, reader.req).resp
                               ELSE exportSQLOver(reader.first, db, reader.req.table).resp]
    /\ UNCHANGED db

\* Another caller's request is served whole and changes the database.
Written(d) ==
    /\ reader.writes < MaxWrites
    /\ d # db
    /\ WithinBounds(d)
    /\ db' = d
    /\ reader' = IF reader.pc = "between"
                 THEN [reader EXCEPT !.writes = @ + 1, !.seen = @ \cup {d}]
                 ELSE [reader EXCEPT !.writes = @ + 1]

otherInsert ==
    \E v \in {Two, TextX} :
        Written(InsertRow(db, [op |-> "insert", table |-> TblT,
                               payload |-> Body([c \in {ColN} |-> v])], <<ColN>>).db)

otherDelete ==
    \E n \in 1..MaxRowid :
        Written(DeleteRow(db, [op |-> "delete", table |-> TblT, rowid |-> IntParam(n)]).db)

otherQuery ==
    \E q \in OverlapQueries, conn \in ConnCounters :
        Written(ExecuteQuery(db, [op |-> "query", valid |-> TRUE, query |-> q], conn).db)

InitOverlap ==
    /\ db = InitDb
    /\ dbPrev = InitDb
    /\ req = NoRequest
    /\ resp = NoResponse
    /\ sqlIdents = {}
    /\ executed = 0
    /\ idName = <<>>
    /\ idResult = "none"
    /\ acked = NoAck
    /\ calls = NoCalls
    /\ writeLock = 0
    /\ boot = NoBoot
    /\ reader = NoReader

NextOverlap ==
    /\ \/ readFirst
       \/ readSecond
       \/ otherInsert
       \/ otherDelete
       \/ otherQuery
    /\ UNCHANGED <<dbPrev, req, resp, sqlIdents, executed, idVars, acked, raceVars, boot>>

SpecOverlap == InitOverlap /\ [][NextOverlap]_vars

(***************************************************************************)
(* Reading a result whose rows fail partway.  rows.Next() returns false    *)
(* both at the end of the rows and on an error of the engine (I/O error,   *)
(* corrupt page, interrupt); rows.Err() tells the two apart.  failAt is    *)
(* the number of rows the engine delivers before it fails, -1 when it does *)
(* not fail.                                                               *)
(***************************************************************************)
ReadFailures == -1..MaxRows

\* for rows.Next() { ... data = append(data, row) }
RowsNext(rows, failAt) ==
    IF failAt \in 0..(Len(rows) - 1)
    THEN [rows |-> SubSeq(rows, 1, failAt), err |-> "disk I/O error"]
    ELSE [rows |-> rows, err |-> ""]

\* The answer o of a handler whose loop ends at the failure and that does
\* not ask rows.Err(): the rows read so far, and success.
Unchecked(o, failAt) ==
    IF o.resp.status = 200 /\ "rows" \in DOMAIN o.resp
    THEN [o EXCEPT !.resp.rows = RowsNext(o.resp.rows, failAt).rows]
    ELSE o

\* handleGetTableData: the loop ends and the handler goes on to the count.
GetTableDataReading(d, r, failAt) ==
    CHOOSE x \in {Unchecked(o, failAt) : o \in {GetTableData(d, r)}} : TRUE

\* handleExecuteQuery, read path: the loop ends and the handler answers.
ExecuteQueryReading(d, r, conn, failAt) ==
    CHOOSE x \in {Unchecked(o, failAt) : o \in {ExecuteQuery(d, r, conn)}} : TRUE

\* fetchAllRows: if err := rows.Err(); err != nil { return nil, nil, err },
\* which every export turns into a 500.
Checked(o, read) ==
    IF o.resp.status = 200 /\ read.err # ""
    THEN [o EXCEPT !.resp = ErrorResp(500, read.err)]
    ELSE o

ExportTableReading(d, r, failAt) ==
    CHOOSE x \in {Checked(o, RowsNext(f.rows, failAt)) :
                      o \in {ExportTable(d, r)}, f \in {fetchAllRows(d, r.table)}} : TRUE

\* The request r, served while the engine fails after failAt rows.
FailingAt(r, failAt) == [failAt |-> failAt] @@ r

fetchReading ==
    \E failAt \in ReadFailures :
        LET r == FetchRequest(TblT, AbsentParam, AbsentParam, <<>>, <<>>, "ASC")
        IN  Serve(FailingAt(r, failAt), GetTableDataReading(db, r, failAt))

queryReading ==
    \E failAt \in ReadFailures, conn \in ConnCounters :
        LET r == [op |-> "query", valid |-> TRUE, query |-> QSelect]
        IN  Serve(FailingAt(r, failAt), ExecuteQueryReading(db, r, conn, failAt))

exportReading ==
    \E failAt \in ReadFailures, f \in {"csv", "json", "sql"} :
        LET r == [op |-> "export", table |-> TblT, hasFormat |-> TRUE, format |-> f]
        IN  Serve(FailingAt(r, failAt), ExportTableReading(db, r, failAt))

NextRead ==
    \/ fetchReading
    \/ queryReading
    \/ exportReading
    \/ handleInsertRow
    \/ handleDeleteRow
    \/ Returned

SpecRead == Init /\ [][NextRead]_vars

(***************************************************************************)
(* The validator on its own: a string is drawn and IsSafeIdentifier is     *)
(* applied to it.                                                          *)
(***************************************************************************)
\* '-' '.' '/' '0' '9' ':' '@' 'A' 'Z' '[' '_' '`' 'a' 'z' '{', space, '"',
\* and U+00E9, a letter outside ASCII.
IdentAlphabet == {45, 46, 47, 48, 57, 58, 64, 65, 90, 91, 95, 96, 97, 122, 123, 32, 34, 233}

InitIdent ==
    /\ db = InitDb
    /\ dbPrev = InitDb
    /\ req = NoRequest
    /\ resp = NoResponse
    /\ sqlIdents = {}
    /\ executed = 0
    /\ idName \in StringsUpTo(IdentAlphabet, MaxIdLen)
    /\ idResult = "none"
    /\ acked = NoAck
    /\ calls = NoCalls
    /\ writeLock = 0
    /\ boot = NoBoot
    /\ reader = NoReader

Validate ==
    /\ idResult = "none"
    /\ idResult' = IF IsSafeIdentifier(idName) THEN "true" ELSE "false"
    /\ UNCHANGED <<idName, srvVars, acked, raceVars, boot, reader>>

NextIdent == Validate

SpecIdent == InitIdent /\ [][NextIdent]_vars

(***************************************************************************)
(* Properties.  What the specification says is stated with definitions of  *)
(* its own, independent of the operators that model the code.              *)
(***************************************************************************)
\* The identifier policy: the characters [A-Za-z0-9_.].
AllowedChars == (65..90) \cup (97..122) \cup (48..57) \cup {95, 46}

AllowedName(name) == name # <<>> /\ \A i \in 1..Len(name) : name[i] \in AllowedChars

MutationOps == {"insert", "update", "delete"}
TableOps == {"fetch", "insert", "update", "delete"}

\* C1: every table or column name a request embeds into SQL text has passed
\* the validator, the column names that the search enumerates from the
\* table's column introspection included.
C1_EmbeddedIdentifiersValidated == \A id \in sqlIdents : IsSafeIdentifier(id)

\* C2: IsSafeIdentifier(name) is true if and only if name is non-empty and
\* every character of it is an ASCII letter, an ASCII digit, '_' or '.'.
C2_ValidatorIffAllowed ==
    idResult # "none" => (idResult = "true" <=> AllowedName(idName))

C2_Witness == idResult = "true" /\ idName = <<95, 46>>

\* The requests the specification rejects for validation.
PositiveRowid(p) == p.kind = "int" /\ p.n >= 1

ValidationFault(r) ==
    \/ r.op \in TableOps /\ ~AllowedName(r.table)
    \/ r.op \in {"update", "delete"} /\ ~PositiveRowid(r.rowid)
    \/ r.op = "insert" /\ r.payload.valid
           /\ (DOMAIN r.payload.m = {} \/ \E c \in DOMAIN r.payload.m : ~AllowedName(c))
    \/ r.op = "update" /\ r.payload.valid
           /\ (DOMAIN r.payload.m \ {KeyRowid} = {}
               \/ \E c \in DOMAIN r.payload.m \ {KeyRowid} : ~AllowedName(c))
    \/ r.op = "query" /\ r.valid /\ \A i \in 1..Len(r.query) : IsSpace(r.query[i])

\* C3: a request rejected for validation is answered 400, no SQL statement
\* has been executed for it and the stored data is unchanged.
C3_ValidationRejectsBeforeSql ==
    (req # NoRequest /\ ValidationFault(req)) =>
        (resp.status = 400 /\ executed = 0 /\ db = dbPrev)

C3_Witness ==
    /\ req.op = "insert"
    /\ DOMAIN req.payload.m = {ColBad, ColN}
    /\ resp.status = 400
    /\ executed = 0

\* C4: every mutation request is all-or-nothing: one that returns an error
\* leaves the database exactly as it was before the request.
C4_MutationAllOrNothing ==
    (req.op \in MutationOps \cup {"query"} /\ resp.status # 200) => db = dbPrev

\* The search filter as the specification states it: a row passes when one
\* of its columns, read as text, contains the term, letter case ignored.
LowerCase(c) == IF c \in 65..90 THEN c + 32 ELSE c

\* text matches the pattern: % stands for any run of characters, _ for any
\* one character, a letter for itself in either case.
PatternMatch(pattern, text) ==
    LET M[i \in 0..Len(pattern), j \in 0..Len(text)] ==
            IF i = 0 THEN j = 0
            ELSE IF pattern[i] = 37 THEN M[i - 1, j] \/ (j > 0 /\ M[i, j - 1])
            ELSE /\ j > 0
                 /\ (pattern[i] = 95 \/ LowerCase(pattern[i]) = LowerCase(text[j]))
                 /\ M[i - 1, j - 1]
    IN  M[Len(pattern), Len(text)]

ContainsFold(text, term) == PatternMatch(<<37>> \o term \o <<37>>, text)

TextOf(val) == IF val.k = "real" THEN val.v \o <<46, 48>> ELSE val.v

RowSatisfies(r, term) ==
    \/ term = <<>>
    \/ \E j \in 1..Len(r.vals) : r.vals[j].k # "null" /\ ContainsFold(TextOf(r.vals[j]), term)

RowidCell(r) == IntVal(FormatNat(r.rowid))

Min(a, b) == IF a < b THEN a ELSE b
Max(a, b) == IF a > b THEN a ELSE b

\* C5: the total of a fetch is the number of rows of the table that pass the
\* search filter of the returned rows, whatever the limit and the offset: the
\* table's row count without a search, the number of matching rows with one.
C5_TotalCountsFilteredRows ==
    (req.op = "fetch" /\ resp.status = 200) =>
        LET matching == {r \in db[req.table].rows : RowSatisfies(r, req.search)}
        IN  /\ resp.total = Cardinality(matching)
            /\ \A i \in 1..Len(resp.rows) :
                   resp.rows[i][KeyRowid] \in {RowidCell(r) : r \in matching}
            /\ Len(resp.rows) = Min(resp.limit, Max(0, resp.total - resp.offset))

C5_Witness ==
    /\ req.op = "fetch"
    /\ req.search = <<120>>
    /\ resp.status = 200
    /\ Cardinality(db[TblT].rows) = 3
    /\ resp.total = 2
    /\ Len(resp.rows) = 1

\* A row of a table as a fetch is to return it.
RowRecord(t, r) ==
    [c \in {KeyRowid} \cup {t.cols[j].name : j \in 1..Len(t.cols)} |->
        IF c = KeyRowid THEN RowidCell(r)
        ELSE r.vals[CHOOSE j \in 1..Len(t.cols) : t.cols[j].name = c]]

\* The pages of size L at the offsets 0, L, 2L, ... one after the other.
PagesOf(d, tname, L) ==
    LET lastPage == Cardinality(d[tname].rows) \div L
        PageAt(k) == GetTableData(d, FetchRequest(tname, IntParam(L), IntParam(k * L),
                                                  <<>>, <<>>, "ASC")).resp.rows
        Upto[k \in 0..lastPage] == IF k = 0 THEN PageAt(0) ELSE Upto[k - 1] \o PageAt(k)
    IN  Upto[lastPage]

\* C6: for a table that does not change and a page size L > 0, the pages at
\* the offsets 0, L, 2L, ... (no search, no sort) hold every row of the table
\* exactly once.
C6_PagesCoverTableOnce ==
    \A tname \in DOMAIN db : \A L \in 1..(MaxRows + 1) :
        LET pages == PagesOf(db, tname, L)
        IN  /\ Len(pages) = Cardinality(db[tname].rows)
            /\ Range(pages) = {RowRecord(db[tname], r) : r \in db[tname].rows}

C6_Witness ==
    /\ req.op = "fetch"
    /\ req.limit = IntParam(2)
    /\ req.offset = IntParam(2)
    /\ req.search = <<>>
    /\ resp.status = 200
    /\ Cardinality(db[TblT].rows) = 3
    /\ Len(resp.rows) = 1

\* Equal up to the engine's type coercion: the same value, or the same digits
\* or characters held in another storage class.
SameValue(a, b) == a = b \/ (a.k # "null" /\ b.k # "null" /\ a.v = b.v)

DefaultFetch(tname) == FetchRequest(tname, AbsentParam, AbsentParam, <<>>, <<>>, "ASC")

\* C7: a successful insert returns the row identifier N the engine gave the
\* new row, and a fetch of the table then holds exactly one row with
\* _rowid = N, whose payload columns hold the inserted values.
C7_InsertRoundTrip ==
    (req.op = "insert" /\ resp.status = 200) =>
        LET fetched == GetTableData(db, DefaultFetch(req.table)).resp.rows
            N == IntVal(FormatNat(resp.rowid))
            hits == {i \in 1..Len(fetched) : fetched[i][KeyRowid] = N}
        IN  /\ resp.rowid \notin Rowids(dbPrev[req.table])
            /\ Cardinality(hits) = 1
            /\ \A i \in hits : \A c \in DOMAIN req.payload.m :
                   IF c \in DOMAIN fetched[i]
                   THEN SameValue(fetched[i][c], req.payload.m[c])
                   ELSE c \in RowidAliases /\ SameValue(N, req.payload.m[c])

C7_Witness ==
    /\ req.op = "insert"
    /\ resp.status = 200
    /\ resp.rowid = 3
    /\ DOMAIN req.payload.m = {ColN}
    /\ req.payload.m[ColN] = TextTwo

\* An update that passes validation and names what the table has: valid JSON
\* whose keys, the _rowid key aside, are allowed names of columns of the
\* table or of its row identifier.
ColumnNames(t) == {t.cols[j].name : j \in 1..Len(t.cols)}

KnownTable(r) == AllowedName(r.table) /\ r.table \in DOMAIN dbPrev

WellFormedUpdate(r) ==
    /\ r.op = "update"
    /\ KnownTable(r)
    /\ PositiveRowid(r.rowid)
    /\ r.payload.valid
    /\ DOMAIN r.payload.m \ {KeyRowid} # {}
    /\ DOMAIN r.payload.m \ {KeyRowid} \subseteq ColumnNames(dbPrev[r.table]) \cup RowidAliases
    /\ \A c \in DOMAIN r.payload.m \ {KeyRowid} : AllowedName(c)

\* C8: an update or a delete addressed to a positive row identifier that no
\* row of the table has answers 404 and changes nothing.
C8_MissingRowidIs404 ==
    /\ (WellFormedUpdate(req) /\ req.rowid.n \notin Rowids(dbPrev[req.table]))
           => (resp.status = 404 /\ db = dbPrev)
    /\ (req.op = "delete" /\ KnownTable(req) /\ PositiveRowid(req.rowid)
           /\ req.rowid.n \notin Rowids(dbPrev[req.table]))
           => (resp.status = 404 /\ db = dbPrev)

C8_Witness ==
    /\ req.op = "update"
    /\ WellFormedUpdate(req)
    /\ req.rowid.n \notin Rowids(dbPrev[req.table])
    /\ dbPrev[req.table].rows # {}
    /\ resp.status = 404

RowOf(t, id) == CHOOSE r \in t.rows : r.rowid = id

\* C9: a _rowid key in an update body is dropped before the statement is
\* built: with other columns the row keeps its identifier and only those
\* columns change; alone it is rejected as "no columns to update".
C9_RowidKeyDropped ==
    /\ (WellFormedUpdate(req) /\ KeyRowid \in DOMAIN req.payload.m
           /\ DOMAIN req.payload.m \ {KeyRowid} \subseteq ColumnNames(dbPrev[req.table])
           /\ req.rowid.n \in Rowids(dbPrev[req.table]))
           => LET before == dbPrev[req.table]
                  after == db[req.table]
                  id == req.rowid.n
              IN  /\ resp.status = 200
                  /\ Rowids(after) = Rowids(before)
                  /\ \A r \in before.rows : r.rowid # id => r \in after.rows
                  /\ \A j \in 1..Len(before.cols) :
                         IF before.cols[j].name \in DOMAIN req.payload.m
                         THEN SameValue(RowOf(after, id).vals[j],
                                        req.payload.m[before.cols[j].name])
                         ELSE RowOf(after, id).vals[j] = RowOf(before, id).vals[j]
    /\ (req.op = "update" /\ AllowedName(req.table) /\ PositiveRowid(req.rowid)
           /\ req.payload.valid /\ DOMAIN req.payload.m = {KeyRowid})
           => /\ resp.status = 400
              /\ resp.error = "no columns to update"
              /\ executed = 0
              /\ db = dbPrev

C9_Witness ==
    /\ req.op = "update"
    /\ req.payload.valid
    /\ DOMAIN req.payload.m = {KeyRowid, ColN}
    /\ req.payload.m[KeyRowid] = Two
    /\ req.rowid = IntParam(1)
    /\ resp.status = 200
    /\ db # dbPrev

\* The read/write classification as the specification states it: leading and
\* trailing whitespace aside, the text begins with SELECT or WITH, letter
\* case ignored.
BeginsKeyword(text, kw) ==
    \E i \in 0..(Len(text) - Len(kw)) :
        /\ \A j \in 1..i : text[j] \in {9, 10, 11, 12, 13, 32}
        /\ \A j \in 1..Len(kw) : LowerCase(text[i + j]) = LowerCase(kw[j])

ReadText(text) == BeginsKeyword(text, KwSelect) \/ BeginsKeyword(text, KwWith)

\* C10: an ad-hoc text is run as a read exactly when it begins with SELECT or
\* WITH; a read answers with columns and all rows, any other text is run as
\* a write and answers with the affected-row count and the last inserted id.
C10_ReadWriteClassification ==
    (req.op = "query" /\ resp.status = 200) =>
        /\ resp.type = "select" <=> ReadText(req.query)
        /\ resp.type = "write" <=> ~ReadText(req.query)
        /\ resp.type = "select" =>
               /\ {"columns", "rows"} \subseteq DOMAIN resp
               /\ Len(resp.rows) = Cardinality(db[TblT].rows)
        /\ resp.type = "write" => {"rowsAffected", "lastInsertId"} \subseteq DOMAIN resp

C10_Witness ==
    /\ req.op = "query"
    /\ req.query = QSelect
    /\ resp.status = 200
    /\ resp.type = "select"
    /\ Len(resp.rows) = 2

\* What a sort column can name in a fetch: a column of the table, its row
\* identifier, or the _rowid column of the result.
SortableNames(t) == ColumnNames(t) \cup RowidAliases \cup {KeyRowid}

Unsorted(r) == [r EXCEPT !.orderBy = <<>>]

\* C11: a fetch whose sort column fails validation or names no column of the
\* table succeeds and answers exactly what the same fetch without a sort
\* column answers.
C11_BadSortColumnIsNoSort ==
    (req.op = "fetch" /\ AllowedName(req.table) /\ req.table \in DOMAIN db
        /\ req.orderBy # <<>>
        /\ (~AllowedName(req.orderBy) \/ req.orderBy \notin SortableNames(db[req.table])))
    => /\ resp.status = 200
       /\ resp = GetTableData(db, Unsorted(req)).resp

C11_Witness ==
    /\ req.op = "fetch"
    /\ req.orderBy = ColZZ
    /\ req.orderDir = "DESC"
    /\ resp.status = 200
    /\ Len(resp.rows) = 3
    /\ resp.rows[1][ColN] # resp.rows[2][ColN]
    /\ resp.rows[1][KeyRowid] = IntVal(<<49>>)

\* C12: a fetch with an empty search term answers what the same fetch with
\* the search term omitted answers, on the same table state.
C12_EmptySearchIsNoSearch ==
    (req.op = "fetch" /\ req.hasSearch /\ req.search = <<>>)
        => resp = GetTableData(db, [req EXCEPT !.hasSearch = FALSE]).resp

\* The case where a filter on every column would show: a row of NULLs only.
C12_Witness ==
    /\ req.op = "fetch"
    /\ req.hasSearch
    /\ req.search = <<>>
    /\ resp.status = 200
    /\ resp.total = 2
    /\ \E r \in db[TblT].rows : \A j \in 1..Len(r.vals) : r.vals[j] = Null

\* C13: with a non-empty search term a row is in the filtered result and
\* counted in the total exactly when one of its columns matches the
\* case-insensitive pattern %term%; the term reaches the engine as a bound
\* value, so a quote or a wildcard in it is matched, not parsed.
C13_SearchMatchesAnyColumn ==
    (req.op = "fetch" /\ req.search # <<>> /\ resp.status = 200) =>
        LET t == db[req.table]
            matching == {r \in t.rows :
                            \E j \in 1..Len(t.cols) :
                                /\ r.vals[j].k # "null"
                                /\ PatternMatch(<<37>> \o req.search \o <<37>>,
                                                TextOf(r.vals[j]))}
            returned == {resp.rows[i][KeyRowid] : i \in 1..Len(resp.rows)}
        IN  /\ resp.total = Cardinality(matching)
            /\ returned \subseteq {RowidCell(r) : r \in matching}
            /\ (resp.offset = 0 /\ resp.limit >= Cardinality(matching))
                   => returned = {RowidCell(r) : r \in matching}

C13_Witness ==
    /\ req.op = "fetch"
    /\ req.search = <<88>>
    /\ req.limit = AbsentParam
    /\ req.offset = AbsentParam
    /\ resp.status = 200
    /\ resp.total = 1
    /\ Cardinality(db[TblT].rows) = 3
    /\ resp.rows[1][ColN] = IntVal(<<50>>)
    /\ resp.rows[1][ColAB] = TextVal(<<120>>)

FullFetch(d, tname) == GetTableData(d, DefaultFetch(tname)).resp

\* C14 as stated: the header of the CSV export is the column list of a direct
\* unfiltered fetch of the table, and there is one record per row, a NULL
\* rendered as an empty field.
C14_CsvHeaderIsFetchColumns ==
    (req.op = "export" /\ resp.status = 200 /\ resp.format = "csv") =>
        LET f == FullFetch(db, req.table)
        IN  /\ resp.header = f.columns
            /\ Len(resp.records) = f.total
            /\ Len(resp.records) = Cardinality(db[req.table].rows)

\* C14 amended: the header of the CSV export is the column list of a direct
\* unfiltered fetch of the table without the _rowid that the fetch puts
\* first, in the same order; there is one record per row of the table, in
\* the order of the fetch, with NULL rendered as an empty field and any other
\* value as its text.
C14_CsvHeaderIsFetchColumnsButRowid ==
    (req.op = "export" /\ resp.status = 200 /\ resp.format = "csv") =>
        LET f == FullFetch(db, req.table)
        IN  /\ <<KeyRowid>> \o resp.header = f.columns
            /\ Len(resp.records) = f.total
            /\ Len(resp.records) = Cardinality(db[req.table].rows)
            /\ \A i \in 1..Len(resp.records) :
                   /\ Len(resp.records[i]) = Len(resp.header)
                   /\ \A j \in 1..Len(resp.header) :
                          LET cell == f.rows[i][resp.header[j]]
                          IN  resp.records[i][j] = IF cell = Null THEN <<>> ELSE cell.v

C14_Witness ==
    /\ req.op = "export"
    /\ resp.status = 200
    /\ resp.format = "csv"
    /\ resp.header = <<ColN, ColAB>>
    /\ Len(resp.records) = 3
    /\ resp.records[2] = <<<<>>, <<>>>>
    /\ resp.records[3] = <<<<39, 120>>, <<>>>>

\* s with every apostrophe written twice, position by position.
ApostrophesBefore(s, i) == Cardinality({k \in 1..(i - 1) : s[k] = 39})

Doubled(s) ==
    [m \in 1..(Len(s) + ApostrophesBefore(s, Len(s) + 1)) |->
        s[CHOOSE i \in 1..Len(s) :
              /\ m >= i + ApostrophesBefore(s, i)
              /\ m <= i + ApostrophesBefore(s, i) + (IF s[i] = 39 THEN 1 ELSE 0)]]

\* The literal the specification gives a cell in the dump.
DumpLiteral(cell) ==
    CASE cell.k = "null" -> <<78, 85, 76, 76>>
      [] cell.k = "text" -> <<39>> \o Doubled(cell.v) \o <<39>>
      [] OTHER -> cell.v

\* The rows of a table as an export sees them: the values, in scan order.
Content(t) == [i \in 1..Cardinality(t.rows) |-> ScanOrder(t.rows)[i].vals]

\* C15: the SQL dump is, in this order, the table's CREATE statement, one
\* DELETE FROM <table> and one INSERT per row; a text value is a string
\* literal with every single quote doubled, a boolean is 1 or 0, NULL is
\* NULL and an integer is its decimal literal.
C15_DumpShape ==
    /\ formatSQLValue(BoolVal(TRUE)) = <<49>>
    /\ formatSQLValue(BoolVal(FALSE)) = <<48>>
    /\ (req.op = "export" /\ resp.status = 200 /\ resp.format = "sql") =>
           LET t == db[req.table]
               rows == Content(t)
           IN  /\ Len(resp.dump) = 2 + Cardinality(t.rows)
               /\ resp.dump[1] = [op |-> "schema", text |-> t.sql]
               /\ resp.dump[2].op = "delete"
               /\ Unquote(resp.dump[2].table) = req.table
               /\ \A i \in 1..Len(rows) :
                      LET ins == resp.dump[2 + i]
                      IN  /\ ins.op = "insert"
                          /\ Unquote(ins.table) = req.table
                          /\ [j \in 1..Len(ins.cols) |-> Unquote(ins.cols[j])]
                                 = [j \in 1..Len(t.cols) |-> t.cols[j].name]
                          /\ ins.vals = [j \in 1..Len(t.cols) |-> DumpLiteral(rows[i][j])]

C15_Witness ==
    /\ req.op = "export"
    /\ resp.status = 200
    /\ resp.format = "sql"
    /\ Len(resp.dump) = 5
    /\ resp.dump[3].vals = <<<<50>>, <<39, 120, 39>>>>
    /\ resp.dump[4].vals = <<<<39, 39, 39, 120, 39>>, <<78, 85, 76, 76>>>>

\* The databases a dump is replayed into: one without the table, the one it
\* was taken from, and one where the table holds other rows.
EmptyDb == [x \in {} |-> 0]

ReplayTargets == {EmptyDb, db, InitDb}

\* C16: replaying the SQL dump statement by statement, once or more, into a
\* database with or without the table, leaves the table holding exactly the
\* exported rows, and a second replay gives the state of the first.
C16_ReplayIdempotent ==
    (req.op = "export" /\ resp.status = 200 /\ resp.format = "sql") =>
        \A target \in ReplayTargets :
            LET once == Replay(target, resp.dump)
                twice == Replay(once, resp.dump)
            IN  /\ req.table \in DOMAIN once
                /\ Content(once[req.table]) = Content(db[req.table])
                /\ twice = once

C16_Witness ==
    /\ req.op = "export"
    /\ resp.status = 200
    /\ resp.format = "sql"
    /\ Len(resp.dump) = 4
    /\ resp.dump[3].vals = <<<<39, 39, 39, 120, 39>>, <<78, 85, 76, 76>>>>
    /\ Rowids(db[TblT]) = {2, 3}
    /\ Rowids(Replay(InitDb, resp.dump)[TblT]) = {1, 2}

\* A system table of the storage engine: its name begins with "sqlite_".
SystemTable(name) ==
    /\ Len(name) >= 7
    /\ [i \in 1..7 |-> LowerCase(name[i])] = <<115, 113, 108, 105, 116, 101, 95>>

\* C17: GET /tables answers exactly the names of the tables that are not
\* system tables: every table a user created is listed, whatever its name,
\* and no system table is.
C17_ListIsUserTables ==
    (req.op = "list" /\ resp.status = 200) =>
        /\ {resp.tables[i] : i \in 1..Len(resp.tables)}
               = {x \in DOMAIN db : ~SystemTable(x)}
        /\ Len(resp.tables) = Cardinality({x \in DOMAIN db : ~SystemTable(x)})

\* C18: once a mutation has been answered with success, the requests started
\* afterwards reflect it: a dropped table is neither listed nor fetched, a
\* created table is listed and can be fetched, an inserted or updated row is
\* among the fetched rows, a deleted row is not.
C18_ReadsReflectAcknowledged ==
    /\ (req.op = "list" /\ resp.status = 200) =>
           /\ acked.op = "drop" => acked.table \notin Range(resp.tables)
           /\ acked.op = "create" => acked.table \in Range(resp.tables)
    /\ (req.op = "fetch" /\ req.table = acked.table) =>
           LET ids == IF resp.status = 200
                      THEN {resp.rows[i][KeyRowid] : i \in 1..Len(resp.rows)}
                      ELSE {}
               id == IntVal(FormatNat(acked.rowid))
           IN  /\ acked.op = "drop" => resp.status # 200
               /\ acked.op = "create" => resp.status = 200
               /\ acked.op \in {"insert", "update"} => id \in ids
               /\ acked.op = "delete" => id \notin ids

\* The database after the updates of the calls i then j, one after the other.
Serially(i, j) ==
    LET Apply(d, k) ==
            UpdateRow(d, calls[k].req,
                      CHOOSE order \in Perms(DOMAIN StripRowid(calls[k].req.payload.m)) : TRUE).db
    IN  Apply(Apply(RaceDb, i), j)

\* C19: two updates of the same row that overlap are each applied as one
\* atomic statement and both succeed: the row ends as if the two had been
\* applied one after the other in some order.
C19_OverlappingUpdatesSerialize ==
    (/\ \A i \in Callers : calls[i].pc = "done"
     /\ calls[1].req.rowid = calls[2].req.rowid
     /\ calls[1].req.rowid.n \in Rowids(RaceDb[TblT]))
    => /\ \A i \in Callers : calls[i].resp.status = 200
       /\ db \in {Serially(1, 2), Serially(2, 1)}

\* The limit, offset and direction a fetch is to use, from its parameters.
UsedLimit(p) == IF p.kind = "int" /\ p.n > 0 THEN p.n ELSE 100
UsedOffset(p) == IF p.kind = "int" /\ p.n >= 0 THEN p.n ELSE 0
UsedDir(dir) == IF dir \in {"ASC", "DESC"} THEN dir ELSE "ASC"

\* The request r with its limit, offset and direction written out.
Normalised(r) ==
    [r EXCEPT !.limit = IntParam(UsedLimit(r.limit)),
              !.offset = IntParam(UsedOffset(r.offset)),
              !.orderDir = UsedDir(r.orderDir)]

\* C20: a fetch uses the limit 100 when its limit is absent, not a number or
\* <= 0, the offset 0 when its offset is absent, not a number or < 0, and the
\* direction ASC when its direction is neither ASC nor DESC; the response
\* reports that limit and offset, and its rows are the page they select.
C20_FetchNormalisesQuerySpec ==
    (req.op = "fetch" /\ resp.status = 200)
    => /\ resp.limit = UsedLimit(req.limit)
       /\ resp.offset = UsedOffset(req.offset)
       /\ Len(resp.rows) = Min(resp.limit, Max(0, resp.total - resp.offset))
       /\ resp = GetTableData(db, Normalised(req)).resp

C20_Witness ==
    /\ req.op = "fetch"
    /\ req.limit = IntParam(0)
    /\ req.offset = IntParam(-1)
    /\ req.orderBy = ColN
    /\ req.orderDir = "desc"
    /\ resp.status = 200
    /\ resp.limit = 100
    /\ resp.offset = 0
    /\ Len(resp.rows) = 3
    /\ resp.rows[1][ColN] # resp.rows[3][ColN]
    /\ resp # GetTableData(db, [req EXCEPT !.orderDir = "DESC"]).resp

Reverse(s) == [i \in 1..Len(s) |-> s[Len(s) + 1 - i]]

\* No two rows of t hold values in the column named c that sort as equal.
NoTies(t, c) ==
    \A a, b \in t.rows :
        a # b => LET j == IF c = KeyRowid THEN 0 ELSE ColIndex(t, c)
                 IN  \/ ValueLess(CellAt(a, j), CellAt(b, j))
                     \/ ValueLess(CellAt(b, j), CellAt(a, j))

\* C21: on a table with no tied values in column c, a fetch sorted by c DESC
\* whose limit covers the table returns the rows of the same fetch sorted ASC,
\* in reversed order.
C21_DescIsReversedAsc ==
    (/\ req.op = "fetch"
     /\ resp.status = 200
     /\ req.orderDir = "DESC"
     /\ req.orderBy \in SortableNames(db[req.table]) /\ AllowedName(req.orderBy)
     /\ NoTies(db[req.table], req.orderBy)
     /\ resp.offset = 0 /\ resp.limit >= Cardinality(db[req.table].rows))
    => resp.rows = Reverse(GetTableData(db, [req EXCEPT !.orderDir = "ASC"]).resp.rows)

C21_Witness ==
    /\ req.op = "fetch"
    /\ req.orderBy = ColN
    /\ req.orderDir = "DESC"
    /\ resp.status = 200
    /\ resp.offset = 0
    /\ Len(resp.rows) = 3
    /\ NoTies(db[TblT], ColN)
    /\ resp.rows[1][KeyRowid] # IntVal(<<51>>)
    /\ resp.rows[3][KeyRowid] # IntVal(<<49>>)

\* C22: the server listens and serves only after the database was opened
\* and pinged with success; when opening or pinging fails the process ends
\* with the listener never started and no request served.
C22_ListensOnlyAfterPing ==
    /\ (boot.listening \/ boot.served > 0)
           => (boot.opened /\ boot.pinged /\ boot.env.openOk /\ boot.env.pingOk)
    /\ (boot.env.dbFlag /\ boot.env.dbFile /\ boot.env.staticOk
            /\ ~(boot.env.openOk /\ boot.env.pingOk) /\ boot.pc \notin {"flags", "file", "static", "open", "ping"})
           => (boot.pc = "exited" /\ boot.fatal = "failed to initialize server"
                   /\ ~boot.listening /\ boot.served = 0)

C22_Witness ==
    /\ boot.pc = "exited"
    /\ boot.opened
    /\ ~boot.env.pingOk
    /\ boot.env.bindOk
    /\ ~boot.listening

C22_WitnessServing ==
    /\ boot.pc = "listening"
    /\ boot.served = MaxServed
    /\ boot.pinged

\* C23: a successful update leaves the table's set of row identifiers as it
\* was, and the row it addressed is still the row with that identifier.
C23_UpdateKeepsRowid ==
    (WellFormedUpdate(req) /\ resp.status = 200)
    => /\ Rowids(db[req.table]) = Rowids(dbPrev[req.table])
       /\ req.rowid.n \in Rowids(db[req.table])

\* C24: an ad-hoc text that is run as a read (it begins with SELECT or WITH)
\* leaves the database, its tables' definitions and rows, as it was.
C24_ReadStatementChangesNothing ==
    (req.op = "query" /\ req.valid /\ ReadText(req.query)) => db = dbPrev

\* C25: in a successful fetch without a search the rows and the total agree,
\* len(rows) = min(limit, max(0, total - offset)), whatever other requests
\* insert or delete while the fetch runs.
C25_RowsAgreeWithTotal ==
    (reader.pc = "done" /\ reader.req.op = "fetch" /\ reader.resp.status = 200)
    => Len(reader.resp.rows)
           = Min(reader.resp.limit, Max(0, reader.resp.total - reader.resp.offset))

\* C25, amended: the rows are the page of the table as the SELECT found it
\* and the total is the row count as the COUNT found it; the two agree when
\* no row was inserted or deleted between the two statements.
C25_RowsAndTotalEachOfTheirMoment ==
    (reader.pc = "done" /\ reader.req.op = "fetch" /\ reader.resp.status = 200)
    => LET t == reader.req.table
           atSelect == Cardinality(reader.first[t].rows)
           atCount == Cardinality(reader.second[t].rows)
       IN  /\ Len(reader.resp.rows)
                  = Min(reader.resp.limit, Max(0, atSelect - reader.resp.offset))
           /\ reader.resp.total = atCount
           /\ reader.first[t].rows = reader.second[t].rows
                  => Len(reader.resp.rows)
                         = Min(reader.resp.limit,
                               Max(0, reader.resp.total - reader.resp.offset))

C25_Witness ==
    /\ reader.pc = "done"
    /\ reader.req.op = "fetch"
    /\ reader.resp.status = 200
    /\ reader.resp.limit = 2
    /\ Len(reader.resp.rows) = 1
    /\ reader.resp.total = 3
    /\ Cardinality(reader.seen) = 3

\* The dump the specification describes for a table with the definition
\* text sql and the columns and rows of t.
DumpOf(tname, sql, t) ==
    <<[op |-> "schema", text |-> sql],
      [op |-> "delete", table |-> <<34>> \o tname \o <<34>>]>>
    \o [i \in 1..Cardinality(t.rows) |->
           [op |-> "insert", table |-> <<34>> \o tname \o <<34>>,
            cols |-> [j \in 1..Len(t.cols) |-> <<34>> \o t.cols[j].name \o <<34>>],
            vals |-> [j \in 1..Len(t.cols) |-> DumpLiteral(Content(t)[i][j])]]]

\* C30: a successful SQL dump describes the table as it was at one moment of
\* the export: its CREATE statement, column lists and rows are those of one
\* of the states the table went through, whatever other requests did to the
\* table meanwhile.
C30_DumpIsOneSnapshot ==
    (reader.pc = "done" /\ reader.req.op = "export" /\ reader.resp.status = 200)
    => \E d \in reader.seen :
           /\ reader.req.table \in DOMAIN d
           /\ reader.resp.dump
                  = DumpOf(reader.req.table, d[reader.req.table].sql, d[reader.req.table])

\* C30, amended: the CREATE statement is the table's definition as
\* getTableSchema found it, the INSERT statements are the columns and rows
\* as fetchAllRows found them; the dump is one snapshot when the table was
\* the same at both statements.
C30_DumpPartsEachOfTheirMoment ==
    (reader.pc = "done" /\ reader.req.op = "export" /\ reader.resp.status = 200)
    => LET t == reader.req.table
       IN  /\ reader.resp.dump = DumpOf(t, reader.first[t].sql, reader.second[t])
           /\ reader.first[t] = reader.second[t]
                  => reader.resp.dump = DumpOf(t, reader.second[t].sql, reader.second[t])

C30_Witness ==
    /\ reader.pc = "done"
    /\ reader.req.op = "export"
    /\ reader.resp.status = 200
    /\ reader.resp.dump[1].text = QCreate
    /\ Len(reader.resp.dump) = 3
    /\ reader.resp.dump[3].cols = <<QuoteIdentifier(ColN), QuoteIdentifier(ColZZ)>>
    /\ Cardinality(reader.seen) = 4

\* Everything but the rows of the table tname is as it was.
OnlyRowsOf(tname) ==
    /\ DOMAIN db = DOMAIN dbPrev
    /\ \A x \in DOMAIN db \ {tname} : db[x] = dbPrev[x]
    /\ db[tname].cols = dbPrev[tname].cols
    /\ db[tname].sql = dbPrev[tname].sql

\* C26: a successful update changes, in the one row it addresses, only what
\* the payload names, and a successful delete removes that one row; every
\* other row and every other column of the row stay as they were.
C26_MutationFrame ==
    /\ (WellFormedUpdate(req) /\ resp.status = 200) =>
           LET before == dbPrev[req.table]
               after == db[req.table]
               id == req.rowid.n
               keys == DOMAIN req.payload.m \ {KeyRowid}
           IN  /\ OnlyRowsOf(req.table)
               /\ id \in Rowids(before)
               /\ Cardinality(after.rows) = Cardinality(before.rows)
               /\ before.rows \ {RowOf(before, id)} \subseteq after.rows
               /\ \A new \in after.rows \ (before.rows \ {RowOf(before, id)}) :
                      /\ keys \cap RowidAliases = {} => new.rowid = id
                      /\ \A j \in 1..Len(before.cols) :
                             IF before.cols[j].name \in keys
                             THEN SameValue(new.vals[j], req.payload.m[before.cols[j].name])
                             ELSE new.vals[j] = RowOf(before, id).vals[j]
    /\ (req.op = "delete" /\ resp.status = 200) =>
           LET before == dbPrev[req.table]
               after == db[req.table]
           IN  /\ OnlyRowsOf(req.table)
               /\ req.rowid.n \in Rowids(before)
               /\ after.rows = before.rows \ {RowOf(before, req.rowid.n)}

C26_Witness ==
    /\ req.op = "update"
    /\ resp.status = 200
    /\ DOMAIN req.payload.m = {ColN}
    /\ req.rowid = IntParam(2)
    /\ Cardinality(dbPrev[TblT].rows) = 3
    /\ db # dbPrev
    /\ \E r \in db[TblT].rows : r.rowid = 2 /\ r.vals[2] # Null

C26_WitnessDelete ==
    /\ req.op = "delete"
    /\ resp.status = 200
    /\ Cardinality(dbPrev[TblT].rows) = 3
    /\ Cardinality(db[TblT].rows) = 2

\* C27: every statement the handlers build has as many arguments as
\* placeholders, each at the position of its placeholder, whatever the order
\* in which the payload map is ranged over: an insert binds the i-th listed
\* column's value at i, an update each SET column's value in SET order and
\* the row identifier last, a fetch one %term% per search column and then the
\* limit and the offset, the count exactly the search arguments.
C27_ArgumentsMatchPlaceholders ==
    /\ (req.op = "insert" /\ req.payload.valid) =>
           \A order \in Perms(DOMAIN req.payload.m) :
               LET st == InsertStatement(req, order)
               IN  /\ Len(st.args) = st.placeholders
                   /\ Len(st.columns) = st.placeholders
                   /\ \A i \in 1..st.placeholders :
                          st.args[i] = req.payload.m[Unquote(st.columns[i])]
                   /\ resp.status = 200 => InsertRow(dbPrev, req, order).db = db
    /\ (req.op = "update" /\ req.payload.valid /\ PositiveRowid(req.rowid)) =>
           \A order \in Perms(DOMAIN req.payload.m \ {KeyRowid}) :
               LET st == UpdateStatement(req, order)
                   n == Len(st.set)
               IN  /\ Len(st.args) = n + 1
                   /\ \A i \in 1..n : st.args[i] = req.payload.m[Unquote(st.set[i])]
                   /\ st.args[n + 1].k = "int"
                   /\ ParseDigits(st.args[n + 1].v) = req.rowid.n
                   /\ resp.status = 200 => UpdateRow(dbPrev, req, order).db = db
    /\ (req.op = "fetch" /\ AllowedName(req.table)) =>
           LET st == SelectStatement(dbPrev, req)
               n == Len(st.where)
               count == CountStatement(st.table, st.where, st.args)
           IN  /\ Len(st.args) = n + 2
               /\ \A i \in 1..n : st.args[i] = TextVal(<<37>> \o req.search \o <<37>>)
               /\ ParseDigits(st.args[n + 1].v) = UsedLimit(req.limit)
               /\ ParseDigits(st.args[n + 2].v) = UsedOffset(req.offset)
               /\ Len(count.args) = Len(count.where)
               /\ count.args = SubSeq(st.args, 1, n)
               /\ count.where = st.where

C27_Witness ==
    /\ req.op = "fetch"
    /\ req.search = <<120>>
    /\ req.limit = IntParam(1)
    /\ req.offset = IntParam(1)
    /\ resp.status = 200
    /\ Len(SelectStatement(dbPrev, req).where) = 2
    /\ resp.total = 2
    /\ Len(resp.rows) = 1

C27_WitnessUpdate ==
    /\ req.op = "update"
    /\ resp.status = 200
    /\ DOMAIN req.payload.m = {ColRowid, ColN}
    /\ db # dbPrev

\* C28: every row record of a fetch, of an ad-hoc select and of a JSON
\* export has exactly one entry per column of the returned column list.
C28_OneEntryPerColumn ==
    /\ (req.op \in {"fetch", "query"} /\ resp.status = 200 /\ "rows" \in DOMAIN resp) =>
           \A i \in 1..Len(resp.rows) :
               /\ Cardinality(DOMAIN resp.rows[i]) = Len(resp.columns)
               /\ DOMAIN resp.rows[i] = Range(resp.columns)
    /\ (req.op = "export" /\ resp.status = 200 /\ resp.format = "json") =>
           \A i \in 1..Len(resp.rows) :
               Cardinality(DOMAIN resp.rows[i]) = Len(db[req.table].cols)

\* C29: a fetch or an ad-hoc select answered with success holds every row
\* of its result; when the engine fails partway through the rows the answer
\* is an error.
C29_NoTruncatedSuccess ==
    (req.op \in {"fetch", "query"} /\ "failAt" \in DOMAIN req /\ resp.status = 200)
    => /\ Len(resp.rows) = Cardinality(db[TblT].rows)
       /\ req.failAt \notin 0..(Cardinality(db[TblT].rows) - 1)

\* The export fetch does answer an error.
C29_ExportFailsWhole ==
    (req.op = "export" /\ "failAt" \in DOMAIN req
        /\ req.failAt \in 0..(Cardinality(db[TblT].rows) - 1))
    => resp.status = 500

=============================================================================
